---- MODULE Spec2Model ----
(***************************************************************************)
(* eBAF: an XDP packet classifier (adblocker.bpf.c) with its user-space    *)
(* loader (adblocker.c) and domain registry / resolver (resolver.c).       *)
(*                                                                         *)
(* The kernel maps, the classifier, the registry, the resolver thread, the *)
(* exporter loop and the signal handler are modelled as one state machine. *)
(***************************************************************************)
EXTENDS Integers, Sequences, FiniteSets, TLC

(***************************************************************************)
(* Bounds of the model.                                                    *)
(***************************************************************************)
\* number of distinct IPv4 addresses on the wire and in DNS answers
NumIPs == 3
\* number of receive queues running the classifier in parallel
NumQueues == 1
\* packets handed to the classifier in one run: of the classifier's own
\* specification, and of the whole program's
MaxPackets == 2
MaxLifePackets == 1
\* number of addresses one domain resolves to over time: enough to fill the
\* IP list of an entry twice
ManyIPs == 9

(***************************************************************************)
(* Program constants.                                                      *)
(***************************************************************************)
STAT_TOTAL == 0
STAT_BLOCKED == 1
\* sizeof(struct ethhdr), sizeof(struct iphdr), ETH_P_IP
ETH_HLEN == 14
IP_HLEN == 20
ETH_P_IP == 2048
\* adblocker.h
DOMAIN_MAX_SIZE == 256
\* MAX_DOMAINS of adblocker.h (10000), scaled
MAX_DOMAINS == 3
\* init_domain_ips
INITIAL_IP_CAPACITY == 4

\* load_whitelist_patterns: room for 1000 patterns
MAX_PATTERNS == 1000
\* RESOLUTION_INTERVAL_SEC of adblocker.h (10 * 60), scaled
RESOLUTION_INTERVAL_SEC == 2
\* main: the statistics are written when 2 seconds have passed
EXPORT_PERIOD == 2
\* main: the number of attach modes tried
ATTACH_MODES == 3

\* a NULL array pointer, and an allocated array with its elements
NULL == [alloc |-> FALSE, elems |-> <<>>]
Array(elems) == [alloc |-> TRUE, elems |-> elems]
NoFile == [exists |-> FALSE, lines |-> <<>>]
File(lines) == [exists |-> TRUE, lines |-> lines]
XDP_PASS == "XDP_PASS"
XDP_DROP == "XDP_DROP"

(***************************************************************************)
(* Byte order.  The host is little endian (x86): a value held in network   *)
(* byte order, read as a host integer, is the byte-swapped number.         *)
(***************************************************************************)
Bswap16(x) == ((x % 256) * 256) + ((x \div 256) % 256)

Bswap32(x) ==
    ((x % 256) * 16777216) + (((x \div 256) % 256) * 65536)
        + (((x \div 65536) % 256) * 256) + ((x \div 16777216) % 256)

htons(x) == Bswap16(x)
htonl(x) == Bswap32(x)
ntohl(x) == Bswap32(x)

\* 10.0.0.n as a host-order integer, and the addresses of the model
HostIP(n) == (10 * 16777216) + n
HostIPs == {HostIP(n) : n \in 1..NumIPs}
NetIPs == {htonl(h) : h \in HostIPs}

(***************************************************************************)
(* State.                                                                  *)
(***************************************************************************)
VARIABLES
    stats,          \* stats_map: index -> u64 counter
    block_set,      \* blacklist_ip_map: network-order IPv4 -> u64 drop counter
    allow_set,      \* the map behind whitelist_map_fd: network-order IPv4 -> marker
    attached,       \* whether xdp_blocker is attached to the interface
    xdp,            \* per receive queue: position, packet and verdict of xdp_blocker
    domains,        \* the registry: whether `domains` is allocated (not NULL), and the
                    \* entries domains[0..domain_count-1]
    domain_mutex,   \* owner of domain_mutex: a thread, or "none"
    whitelist_patterns, \* whether whitelist_patterns is allocated, and the patterns
    whitelist_mutex,\* owner of whitelist_mutex: a thread, or "none"
    ret,            \* value returned by the last registry call made directly
    proc,           \* the process: "run", "exit0", "exit1", or "killed" by a signal
    pc,             \* position of the main thread and of the resolver thread
    running,        \* the flag `running`
    ri,             \* the resolver thread's loop counter (domain index, sleep slice)
    mloc,           \* locals of main: ifname, loop index, counters read, seconds since last export
    installed,      \* whether signal(SIGINT/SIGTERM, cleanup) has been called
    handler,        \* the cleanup handler: the thread it runs on ("none": not running), its position
    stats_file,     \* /tmp/ebaf-stats.dat: <<>> (no file), or <<total, blocked>>
    domain_stats_file   \* /tmp/ebaf-domain-stats.dat: whether it exists, and its lines

kvars == <<stats, block_set, allow_set, attached, xdp>>
rvars == <<domains, domain_mutex, whitelist_patterns, whitelist_mutex, ret>>
tvars == <<proc, pc, running, ri, mloc, installed, handler>>
fvars == <<stats_file, domain_stats_file>>
vars == <<kvars, rvars, tvars, fvars>>

Queues == 1..NumQueues

(***************************************************************************)
(* Kernel maps.                                                            *)
(***************************************************************************)
\* max_entries of blacklist_ip_map, scaled: one less than the addresses of the
\* model, so that an insert into a full map happens
MaxEntries == NumIPs - 1

Keys(m) == DOMAIN m

MapPut(m, k, v) == [x \in Keys(m) \cup {k} |-> IF x = k THEN v ELSE m[x]]

MapDel(m, k) == [x \in Keys(m) \ {k} |-> m[x]]

EmptyMap == [x \in {} |-> 0]

\* bpf_map_update_elem(fd, &k, &v, BPF_ANY) on a BPF_MAP_TYPE_LRU_HASH: the
\* value of a present key is overwritten; a new key is added, and when the map
\* is full the kernel first evicts an entry (which one depends on the access
\* history, which is not modelled: any of them).  The set of possible results.
LruUpdate(m, k, v) ==
    IF k \in Keys(m) \/ Cardinality(Keys(m)) < MaxEntries
    THEN {MapPut(m, k, v)}
    ELSE {MapPut(MapDel(m, e), k, v) : e \in Keys(m)}

\* update_stats that counts blocked packets only
update_stats_blocked_only(s, stat_type) ==
    IF stat_type = STAT_BLOCKED THEN [s EXCEPT ![stat_type] = @ + 1] ELSE s

\* update_stats(stat_type): atomic increment of stats_map[stat_type], when the
\* lookup finds the slot
update_stats(s, stat_type) ==
    IF stat_type \in DOMAIN s THEN [s EXCEPT ![stat_type] = @ + 1] ELSE s

(***************************************************************************)
(* Packets: the frame length (data_end - data), the EtherType as it lies   *)
(* in the frame, and the IPv4 addresses as they lie in the frame.          *)
(***************************************************************************)
Packet(len, proto, src, dst) ==
    [len |-> len, h_proto |-> proto, saddr |-> src, daddr |-> dst]

NoPacket == Packet(0, 0, 0, 0)

FullLen == ETH_HLEN + IP_HLEN

\* every pair of addresses in a complete IPv4 frame; and, for each way a frame
\* can fail to parse, a frame with each address where the addresses would lie
Packets ==
    {Packet(FullLen, htons(ETH_P_IP), s, d) : s \in NetIPs, d \in NetIPs}
        \cup {Packet(l, htons(ETH_P_IP), a, a) :
                l \in {ETH_HLEN - 1, ETH_HLEN, FullLen - 1}, a \in NetIPs}
        \cup {Packet(FullLen, htons(ETH_P_IP + 6), a, a) : a \in NetIPs}

(***************************************************************************)
(* xdp_blocker, in three steps per packet.                                 *)
(***************************************************************************)
XdpIdle == [pc |-> "idle", pkt |-> NoPacket, verdict |-> "none"]

\* lines 86-90: a packet arrives on queue q; update_stats(STAT_TOTAL)
XdpTotal(q, p) ==
    /\ attached
    /\ xdp[q].pc = "idle"
    /\ stats' = update_stats(stats, STAT_TOTAL)
    /\ xdp' = [xdp EXCEPT ![q] = [pc |-> "total", pkt |-> p, verdict |-> "none"]]
    /\ UNCHANGED <<block_set, allow_set, attached, rvars, tvars, fvars>>

\* the checks of xdp_blocker without the bounds check of the IPv4 header
ParseOkNoIpBound(p) ==
    /\ ~(ETH_HLEN > p.len)
    /\ ~(p.h_proto # htons(ETH_P_IP))

\* lines 98-118: the bounds checks and the EtherType check
ParseOk(p) ==
    /\ ~(ETH_HLEN > p.len)
    /\ ~(p.h_proto # htons(ETH_P_IP))
    /\ ~(ETH_HLEN + IP_HLEN > p.len)

XdpParse(q) ==
    /\ xdp[q].pc = "total"
    /\ IF ParseOk(xdp[q].pkt)
       THEN xdp' = [xdp EXCEPT ![q].pc = "parsed"]
       ELSE xdp' = [xdp EXCEPT ![q].pc = "idle", ![q].verdict = XDP_PASS]
    /\ UNCHANGED <<stats, block_set, allow_set, attached, rvars, tvars, fvars>>

\* bpf_map_lookup_elem(&map, &key) in the classifier: a pointer to the value,
\* non-NULL exactly when the key is in the map
Lookup(m, k) == k \in Keys(m)

\* lines 127-133 and 140-146: update_stats(STAT_BLOCKED), the atomic increment
\* of the entry found, return XDP_DROP
XdpDrop(q, k) ==
    /\ stats' = update_stats(stats, STAT_BLOCKED)
    /\ block_set' = [block_set EXCEPT ![k] = @ + 1]
    /\ xdp' = [xdp EXCEPT ![q].pc = "idle", ![q].verdict = XDP_DROP]

\* xdp_blocker with the source lookup left out
XdpFilterDstOnly(q) ==
    /\ xdp[q].pc = "parsed"
    /\ IF Lookup(block_set, xdp[q].pkt.daddr)
       THEN XdpDrop(q, xdp[q].pkt.daddr)
       ELSE /\ xdp' = [xdp EXCEPT ![q].pc = "idle", ![q].verdict = XDP_PASS]
            /\ UNCHANGED <<stats, block_set>>
    /\ UNCHANGED <<allow_set, attached, rvars, tvars, fvars>>

\* xdp_blocker with the source lookup before the destination lookup
XdpFilterSrcFirst(q) ==
    /\ xdp[q].pc = "parsed"
    /\ IF Lookup(block_set, xdp[q].pkt.saddr)
       THEN XdpDrop(q, xdp[q].pkt.saddr)
       ELSE IF Lookup(block_set, xdp[q].pkt.daddr)
       THEN XdpDrop(q, xdp[q].pkt.daddr)
       ELSE /\ xdp' = [xdp EXCEPT ![q].pc = "idle", ![q].verdict = XDP_PASS]
            /\ UNCHANGED <<stats, block_set>>
    /\ UNCHANGED <<allow_set, attached, rvars, tvars, fvars>>

\* lines 125-149: the destination lookup, then the source lookup
XdpFilter(q) ==
    /\ xdp[q].pc = "parsed"
    /\ IF Lookup(block_set, xdp[q].pkt.daddr)
       THEN XdpDrop(q, xdp[q].pkt.daddr)
       ELSE IF Lookup(block_set, xdp[q].pkt.saddr)
       THEN XdpDrop(q, xdp[q].pkt.saddr)
       ELSE /\ xdp' = [xdp EXCEPT ![q].pc = "idle", ![q].verdict = XDP_PASS]
            /\ UNCHANGED <<stats, block_set>>
    /\ UNCHANGED <<allow_set, attached, rvars, tvars, fvars>>

\* xdp_blocker from the lookups on, one step for each access to a map, for
\* invocations that run in parallel with each other and with user space.
\* lines 127-128 and 140-141: the lookup of ip->daddr and, when it finds
\* nothing, of ip->saddr
XdpLookup(q) ==
    /\ xdp[q].pc = "parsed"
    /\ IF Lookup(block_set, xdp[q].pkt.daddr)
       THEN xdp' = [xdp EXCEPT ![q].pc = "hit_daddr"]
       ELSE IF Lookup(block_set, xdp[q].pkt.saddr)
       THEN xdp' = [xdp EXCEPT ![q].pc = "hit_saddr"]
       ELSE xdp' = [xdp EXCEPT ![q].pc = "idle", ![q].verdict = XDP_PASS]
    /\ UNCHANGED <<stats, block_set, allow_set, attached, rvars, tvars, fvars>>

\* the address whose entry block_count_ptr points to
HitKey(q) == IF xdp[q].pc \in {"hit_daddr", "cnt_daddr"} THEN xdp[q].pkt.daddr
                                                         ELSE xdp[q].pkt.saddr

\* an invocation that drops without update_stats(STAT_BLOCKED)
XdpBlockedSkip(q) ==
    /\ xdp[q].pc \in {"hit_daddr", "hit_saddr"}
    /\ xdp' = [xdp EXCEPT ![q].pc = IF @ = "hit_daddr" THEN "cnt_daddr" ELSE "cnt_saddr"]
    /\ UNCHANGED <<stats, block_set, allow_set, attached, rvars, tvars, fvars>>

\* lines 129 and 142: update_stats(STAT_BLOCKED)
XdpBlocked(q) ==
    /\ xdp[q].pc \in {"hit_daddr", "hit_saddr"}
    /\ stats' = update_stats(stats, STAT_BLOCKED)
    /\ xdp' = [xdp EXCEPT ![q].pc = IF @ = "hit_daddr" THEN "cnt_daddr" ELSE "cnt_saddr"]
    /\ UNCHANGED <<block_set, allow_set, attached, rvars, tvars, fvars>>

\* lines 131-132 and 144-145: __sync_fetch_and_add(block_count_ptr, 1), return
\* XDP_DROP.  The element the pointer was taken from may since have been
\* evicted or replaced by an update from user space: the increment then
\* reaches no entry of the map (lost), or the entry of the key the element
\* was given to (to: any key of the map).
XdpCount(q, lost, to) ==
    /\ xdp[q].pc \in {"cnt_daddr", "cnt_saddr"}
    /\ IF lost THEN UNCHANGED block_set
       ELSE /\ to \in Keys(block_set)
            /\ to = HitKey(q) \/ ~Lookup(block_set, HitKey(q))
            /\ block_set' = [block_set EXCEPT ![to] = @ + 1]
    /\ xdp' = [xdp EXCEPT ![q].pc = "idle", ![q].verdict = XDP_DROP]
    /\ UNCHANGED <<stats, allow_set, attached, rvars, tvars, fvars>>


(***************************************************************************)
(* The domain registry (resolver.c).                                       *)
(***************************************************************************)
Min(a, b) == IF a < b THEN a ELSE b

\* strncpy(dst, name, DOMAIN_MAX_SIZE - 1); dst[DOMAIN_MAX_SIZE - 1] = '\0'
Strncpy(name) == SubSeq(name, 1, Min(Len(name), DOMAIN_MAX_SIZE - 1))

\* strcmp(a, b) == 0
StrEq(a, b) == a = b

\* domain_count: 0 while domains is NULL
domain_count == Len(domains.elems)

\* init_domain_ips: capacity 4, no address, no drop
NewEntry(name) ==
    [domain |-> Strncpy(name), total_drops |-> 0, resolved_ips |-> <<>>,
     ip_capacity |-> INITIAL_IP_CAPACITY]

InSeq(x, sq) == \E i \in 1..Len(sq) : sq[i] = x

\* add_ip_to_domain without the search for the address
add_ip_to_domain_always(entry, ip) ==
    [entry EXCEPT
        !.ip_capacity = IF Len(entry.resolved_ips) >= @ THEN @ * 2 ELSE @,
        !.resolved_ips = Append(@, ip)]

\* add_ip_to_domain(entry, ip): nothing for an address already listed; the
\* capacity doubles when the list is full; the address is appended
add_ip_to_domain(entry, ip) ==
    IF InSeq(ip, entry.resolved_ips) THEN entry
    ELSE [entry EXCEPT
            !.ip_capacity = IF Len(entry.resolved_ips) >= @ THEN @ * 2 ELSE @,
            !.resolved_ips = Append(@, ip)]

\* index of the first entry whose stored name equals name, or 0
FindDomain(reg, name) ==
    IF \E i \in 1..Len(reg.elems) : StrEq(reg.elems[i].domain, name)
    THEN CHOOSE i \in 1..Len(reg.elems) :
            /\ StrEq(reg.elems[i].domain, name)
            /\ \A j \in 1..(i - 1) : ~StrEq(reg.elems[j].domain, name)
    ELSE 0

\* domain_store_add with the capacity check off by one
domain_store_add_off_by_one(reg, name) ==
    IF ~reg.alloc THEN [reg |-> reg, ret |-> -1]
    ELSE IF FindDomain(reg, name) # 0 THEN [reg |-> reg, ret |-> 0]
    ELSE IF Len(reg.elems) > MAX_DOMAINS THEN [reg |-> reg, ret |-> -1]
    ELSE [reg |-> Array(Append(reg.elems, NewEntry(name))), ret |-> 0]

\* domain_store_add(domain): the registry after the call and the value returned
domain_store_add(reg, name) ==
    IF ~reg.alloc THEN [reg |-> reg, ret |-> -1]
    ELSE IF FindDomain(reg, name) # 0 THEN [reg |-> reg, ret |-> 0]
    ELSE IF Len(reg.elems) >= MAX_DOMAINS THEN [reg |-> reg, ret |-> -1]
    ELSE [reg |-> Array(Append(reg.elems, NewEntry(name))), ret |-> 0]

\* domain_store_init without the test of domains == NULL
domain_store_init_always(reg, ok) == IF ok THEN Array(<<>>) ELSE reg

\* domain_store_init: an empty registry unless one exists; calloc gives the
\* array (ok) or NULL
domain_store_init(reg, ok) == IF ~reg.alloc /\ ok THEN Array(<<>>) ELSE reg

\* domain_store_cleanup, first half: the IP lists and the array are freed
domain_store_cleanup(reg) == IF reg.alloc THEN NULL ELSE reg

\* a loop that takes the first address of the answer only
ResolveLoopFirstOnly(entry, m, addr_list, i) ==
    IF i > 1 \/ i > Len(addr_list) THEN {<<entry, m>>}
    ELSE {<<add_ip_to_domain(entry, ntohl(addr_list[i])), m2>> :
                m2 \in LruUpdate(m, htonl(ntohl(addr_list[i])), 0)}

RECURSIVE ResolveLoop(_, _, _, _)
\* the loop of resolve_domain_to_ip over addr_list, from position i: each
\* address is converted to host order and listed in the entry, converted back
\* and written to the map with value 0 (BPF_ANY).  The set of possible
\* <<entry, map>> results.
ResolveLoop(entry, m, addr_list, i) ==
    IF i > Len(addr_list) THEN {<<entry, m>>}
    ELSE LET host_ip == ntohl(addr_list[i])
             key == htonl(host_ip)
         IN UNION {ResolveLoop(add_ip_to_domain(entry, host_ip), m2, addr_list, i + 1) :
                        m2 \in LruUpdate(m, key, 0)}

\* a resolver that empties the IP list of a domain whose resolution failed
resolve_domain_to_ip_forget(reg, m, domain, addr_list) ==
    LET e == FindDomain(reg, domain)
    IN IF e = 0 THEN {<<reg, m>>}
       ELSE IF addr_list = <<>>
            THEN {<<[reg EXCEPT !.elems[e].resolved_ips = <<>>], m>>}
            ELSE {<<[reg EXCEPT !.elems[e] = r[1]], r[2]>> :
                        r \in ResolveLoop(reg.elems[e], m, addr_list, 1)}

\* resolve_domain_to_ip(domain, &ip, map_fd) when gethostbyname(domain) answers
\* addr_list (empty: the resolution failed).  The set of possible
\* <<registry, map>> results.
resolve_domain_to_ip(reg, m, domain, addr_list) ==
    IF addr_list = <<>> THEN {<<reg, m>>}
    ELSE LET e == FindDomain(reg, domain)
         IN IF e = 0 THEN {<<reg, m>>}
            ELSE {<<[reg EXCEPT !.elems[e] = r[1]], r[2]>> :
                        r \in ResolveLoop(reg.elems[e], m, addr_list, 1)}

RECURSIVE SumDrops(_, _, _)
\* the inner loop of domain_store_update_drop_counts over resolved_ips from
\* position j: the counters of the addresses the map holds, summed
SumDrops(ips, m, j) ==
    IF j > Len(ips) THEN 0
    ELSE (IF Lookup(m, htonl(ips[j])) THEN m[htonl(ips[j])] ELSE 0)
            + SumDrops(ips, m, j + 1)

\* domain_store_get_drops(domain): total_drops of the first entry whose
\* stored name equals domain, 0 when there is none
domain_store_get_drops(reg, domain) ==
    LET e == FindDomain(reg, domain)
    IN IF e = 0 THEN 0 ELSE reg.elems[e].total_drops

\* a rollup that adds the sums to the counts of the call before
domain_store_update_drop_counts_accumulate(reg, m) ==
    [reg EXCEPT !.elems = [i \in 1..Len(reg.elems) |->
            [reg.elems[i] EXCEPT !.total_drops =
                @ + SumDrops(reg.elems[i].resolved_ips, m, 1)]]]

\* domain_store_update_drop_counts(map_fd), between lock and unlock
domain_store_update_drop_counts(reg, m) ==
    [reg EXCEPT !.elems = [i \in 1..Len(reg.elems) |->
            [reg.elems[i] EXCEPT !.total_drops =
                SumDrops(reg.elems[i].resolved_ips, m, 1)]]]

RECURSIVE Decimal(_)
\* printf("%llu"): the decimal digits of n
Decimal(n) ==
    LET digit == <<"0", "1", "2", "3", "4", "5", "6", "7", "8", "9">>[(n % 10) + 1]
    IN IF n < 10 THEN <<digit>> ELSE Decimal(n \div 10) \o <<digit>>

\* fprintf(fp, "%s:%llu\n", domains[i].domain, domains[i].total_drops)
StatsLine(entry) == entry.domain \o <<":">> \o Decimal(entry.total_drops) \o <<"\n">>

RECURSIVE StatsLinesAll(_, _)
\* a writer that prints a line for every entry
StatsLinesAll(reg, i) ==
    IF i > Len(reg.elems) THEN <<>>
    ELSE <<StatsLine(reg.elems[i])>> \o StatsLinesAll(reg, i + 1)

RECURSIVE StatsLines(_, _)
\* the lines domain_store_write_stats_file prints, from entry i on: one
\* line per entry with total_drops > 0
StatsLines(reg, i) ==
    IF i > Len(reg.elems) THEN <<>>
    ELSE (IF reg.elems[i].total_drops > 0
          THEN <<StatsLine(reg.elems[i])>> ELSE <<>>)
            \o StatsLines(reg, i + 1)

(***************************************************************************)
(* The whitelist resolver (resolver.c).  A name or a pattern is a sequence *)
(* of characters; a list file is the sequence of its lines, each a         *)
(* sequence of characters that ends with the newline fgets keeps.          *)
(***************************************************************************)
\* the delimiters of strtok(line, " \t\n#")
LineDelims == {" ", "\t", "\n", "#"}

RECURSIVE SkipDelims(_, _)
\* strtok, first half: the delimiters at the start of str are skipped
SkipDelims(str, delim) ==
    IF str = <<>> \/ Head(str) \notin delim THEN str
    ELSE SkipDelims(Tail(str), delim)

RECURSIVE TakeToken(_, _)
\* strtok, second half: the token runs up to the next delimiter or the end
TakeToken(str, delim) ==
    IF str = <<>> \/ Head(str) \in delim THEN <<>>
    ELSE <<Head(str)>> \o TakeToken(Tail(str), delim)

\* strtok(str, delim), first call; <<>> stands for the NULL returned when
\* nothing but delimiters is left
Strtok(str, delim) == TakeToken(SkipDelims(str, delim), delim)

\* the entry a line gives: domain = strtok(line, " \t\n#");
\* if (!domain || domain[0] == '#') continue;
ParseLine(line) ==
    LET domain == Strtok(line, LineDelims)
    IN IF domain = <<>> \/ Head(domain) = "#" THEN <<>> ELSE <<domain>>

RECURSIVE ParseLines(_, _)
\* the entries of the lines of a list file from line i on, in file order
ParseLines(lines, i) ==
    IF i > Len(lines) THEN <<>>
    ELSE ParseLine(lines[i]) \o ParseLines(lines, i + 1)

\* load_whitelist_patterns when fopen succeeded: at most MAX_PATTERNS entries
load_whitelist_patterns(file) ==
    LET entries == ParseLines(file.lines, 1)
    IN Array(SubSeq(entries, 1, Min(Len(entries), MAX_PATTERNS)))

RECURSIVE Fnmatch(_, _)
\* fnmatch(pattern, string, 0) == 0, for patterns made of literal characters,
\* `*` (any run of characters) and `?` (any one character)
Fnmatch(pattern, string) ==
    IF pattern = <<>> THEN string = <<>>
    ELSE IF Head(pattern) = "*"
    THEN \/ Fnmatch(Tail(pattern), string)
         \/ string # <<>> /\ Fnmatch(pattern, Tail(string))
    ELSE /\ string # <<>>
         /\ Head(pattern) = "?" \/ Head(pattern) = Head(string)
         /\ Fnmatch(Tail(pattern), Tail(string))

\* the loop over whitelist_patterns of whitelist_resolver_update, step 1
PatternMatches(patterns, domain) ==
    \E i \in 1..Len(patterns) : Fnmatch(patterns[i], domain)

\* a whitelisting that keeps only the addresses of the latest answer
WhitelistIPsOnly(m, addr_list, j) ==
    IF j > Len(addr_list) THEN m
    ELSE [k \in {addr_list[n] : n \in j..Len(addr_list)} |-> 1]

RECURSIVE WhitelistIPs(_, _, _)
\* bpf_map_update_elem(whitelist_map_fd, &ip, &value, BPF_ANY) with value 1
\* for the addresses of addr_list from position j on
WhitelistIPs(m, addr_list, j) ==
    IF j > Len(addr_list) THEN m
    ELSE WhitelistIPs(MapPut(m, addr_list[j], 1), addr_list, j + 1)

RECURSIVE WhitelistStep1(_, _, _, _, _)
\* step 1: each entry of the blacklist file (lines: the entries its lines
\* give), from entry i on, that matches one of the patterns is resolved and
\* its addresses are whitelisted
WhitelistStep1(m, patterns, lines, dns, i) ==
    IF i > Len(lines) THEN m
    ELSE WhitelistStep1(IF PatternMatches(patterns, lines[i])
                        THEN WhitelistIPs(m, dns[lines[i]], 1) ELSE m,
                        patterns, lines, dns, i + 1)

RECURSIVE WhitelistStep2(_, _, _, _)
\* step 2: each pattern, from pattern i on, with strchr(pattern, '*') == NULL
\* is resolved as a name and its addresses are whitelisted
WhitelistStep2(m, patterns, dns, i) ==
    IF i > Len(patterns) THEN m
    ELSE WhitelistStep2(IF ~InSeq("*", patterns[i])
                        THEN WhitelistIPs(m, dns[patterns[i]], 1) ELSE m,
                        patterns, dns, i + 1)

\* whitelist_resolver_update(whitelist_map_fd): the map after the call, when
\* the blacklist file is blacklist_file and gethostbyname answers dns[name]
whitelist_resolver_update(m, patterns, blacklist_file, dns) ==
    IF ~patterns.alloc \/ Len(patterns.elems) = 0 THEN m
    ELSE IF ~blacklist_file.exists THEN m
    ELSE WhitelistStep2(
            WhitelistStep1(m, patterns.elems, ParseLines(blacklist_file.lines, 1), dns, 1),
            patterns.elems, dns, 1)

(***************************************************************************)
(* Threads of the loader process (adblocker.c).                            *)
(***************************************************************************)
\* thread t takes steps of its own code: the process lives and the signal
\* handler is not running on t
Active(t) == proc = "run" /\ handler.on # t

Goto(t, l) == pc' = [pc EXCEPT ![t] = l]

\* where a thread continues after domain_store_write_stats_file
AfterExport(t) == IF t = "main" THEN "m_loop" ELSE "r_sleep"

\* domain_store_update_drop_counts: pthread_mutex_lock
UdcLock(t) ==
    /\ Active(t) /\ pc[t] = "udc_lock"
    /\ domain_mutex = "none"
    /\ domain_mutex' = t
    /\ Goto(t, "udc_body")
    /\ UNCHANGED <<kvars, domains, whitelist_patterns, whitelist_mutex, ret,
                   proc, running, ri, mloc, installed, handler, fvars>>

\* domain_store_update_drop_counts: the sums, pthread_mutex_unlock
UdcBody(t) ==
    /\ Active(t) /\ pc[t] = "udc_body"
    /\ domains' = domain_store_update_drop_counts(domains, block_set)
    /\ domain_mutex' = "none"
    /\ Goto(t, "wsf_lock")
    /\ UNCHANGED <<kvars, whitelist_patterns, whitelist_mutex, ret,
                   proc, running, ri, mloc, installed, handler, fvars>>

\* domain_store_write_stats_file: pthread_mutex_lock
WsfLock(t) ==
    /\ Active(t) /\ pc[t] = "wsf_lock"
    /\ domain_mutex = "none"
    /\ domain_mutex' = t
    /\ Goto(t, "wsf_body")
    /\ UNCHANGED <<kvars, domains, whitelist_patterns, whitelist_mutex, ret,
                   proc, running, ri, mloc, installed, handler, fvars>>

\* domain_store_write_stats_file: fopen("w") (it may fail), the lines, fclose,
\* pthread_mutex_unlock
WsfBody(t, opened) ==
    /\ Active(t) /\ pc[t] = "wsf_body"
    /\ domain_stats_file' = IF opened THEN File(StatsLines(domains, 1))
                                      ELSE domain_stats_file
    /\ domain_mutex' = "none"
    /\ Goto(t, AfterExport(t))
    /\ ri' = IF t = "resolver" THEN 0 ELSE ri
    /\ mloc' = IF t = "main" THEN [mloc EXCEPT !.elapsed = 0] ELSE mloc
    /\ UNCHANGED <<kvars, domains, whitelist_patterns, whitelist_mutex, ret,
                   proc, running, installed, handler, stats_file>>

(***************************************************************************)
(* resolver_thread_func.                                                   *)
(***************************************************************************)
\* while (running)
RTop ==
    /\ Active("resolver") /\ pc["resolver"] = "r_top"
    /\ Goto("resolver", IF running THEN "r_count" ELSE "returned")
    /\ UNCHANGED <<kvars, rvars, proc, running, ri, mloc, installed, handler, fvars>>

\* if (domain_store_get_count() == 0) domain_store_init();
RCount ==
    /\ Active("resolver") /\ pc["resolver"] = "r_count"
    /\ Goto("resolver", IF domain_count = 0 THEN "r_init_lock" ELSE "r_resolve")
    /\ ri' = 0
    /\ UNCHANGED <<kvars, rvars, proc, running, mloc, installed, handler, fvars>>

\* domain_store_init: pthread_mutex_lock
RInitLock ==
    /\ Active("resolver") /\ pc["resolver"] = "r_init_lock"
    /\ domain_mutex = "none"
    /\ domain_mutex' = "resolver"
    /\ Goto("resolver", "r_init_body")
    /\ UNCHANGED <<kvars, domains, whitelist_patterns, whitelist_mutex, ret,
                   proc, running, ri, mloc, installed, handler, fvars>>

\* domain_store_init: the allocation, pthread_mutex_unlock
RInitBody(ok) ==
    /\ Active("resolver") /\ pc["resolver"] = "r_init_body"
    /\ domains' = domain_store_init(domains, ok)
    /\ domain_mutex' = "none"
    /\ Goto("resolver", "r_resolve")
    /\ UNCHANGED <<kvars, whitelist_patterns, whitelist_mutex, ret,
                   proc, running, ri, mloc, installed, handler, fvars>>

\* domain_store_resolve_all: one turn of the loop, in which gethostbyname
\* answers addr_list for domains[i]; no lock is taken
RResolve(addr_list) ==
    /\ Active("resolver") /\ pc["resolver"] = "r_resolve"
    /\ ri < domain_count
    /\ \E r \in resolve_domain_to_ip(domains, block_set, domains.elems[ri + 1].domain, addr_list) :
            /\ domains' = r[1]
            /\ block_set' = r[2]
    /\ ri' = ri + 1
    /\ UNCHANGED <<stats, allow_set, attached, xdp, domain_mutex, whitelist_patterns,
                   whitelist_mutex, ret, proc, pc, running, mloc, installed, handler, fvars>>

\* domain_store_resolve_all: the loop ends
RResolved ==
    /\ Active("resolver") /\ pc["resolver"] = "r_resolve"
    /\ ~(ri < domain_count)
    /\ Goto("resolver", "udc_lock")
    /\ ri' = 0
    /\ UNCHANGED <<kvars, rvars, proc, running, mloc, installed, handler, fvars>>

\* a sleep loop that tests only the count: for (i = 0; i < RESOLUTION_INTERVAL_SEC; i++)
RSleepWhole ==
    /\ Active("resolver") /\ pc["resolver"] = "r_sleep"
    /\ IF ri < RESOLUTION_INTERVAL_SEC
       THEN ri' = ri + 1 /\ UNCHANGED pc
       ELSE Goto("resolver", "r_top") /\ ri' = 0
    /\ UNCHANGED <<kvars, rvars, proc, running, mloc, installed, handler, fvars>>

\* for (i = 0; i < RESOLUTION_INTERVAL_SEC && running; i++) sleep(1);
RSleep ==
    /\ Active("resolver") /\ pc["resolver"] = "r_sleep"
    /\ IF ri < RESOLUTION_INTERVAL_SEC /\ running
       THEN ri' = ri + 1 /\ UNCHANGED pc
       ELSE Goto("resolver", "r_top") /\ ri' = 0
    /\ UNCHANGED <<kvars, rvars, proc, running, mloc, installed, handler, fvars>>

(***************************************************************************)
(* main: the export loop and the code after it.                            *)
(***************************************************************************)
\* while (running) { sleep(1); if (now - last_stats_write >= 2) ... }
MLoop ==
    /\ Active("main") /\ pc["main"] = "m_loop"
    /\ IF running
       THEN LET e == Min(mloc.elapsed + 1, EXPORT_PERIOD)
            IN /\ mloc' = [mloc EXCEPT !.elapsed = e]
               /\ Goto("main", IF e >= EXPORT_PERIOD THEN "m_get_total" ELSE "m_loop")
       ELSE Goto("main", "m_detach") /\ UNCHANGED mloc
    /\ UNCHANGED <<kvars, rvars, proc, running, ri, installed, handler, fvars>>

\* get_stats: bpf_map_lookup_elem(stats_map_fd, STAT_TOTAL)
MGetTotal ==
    /\ Active("main") /\ pc["main"] = "m_get_total"
    /\ mloc' = [mloc EXCEPT !.total = stats[STAT_TOTAL]]
    /\ Goto("main", "m_get_blocked")
    /\ UNCHANGED <<kvars, rvars, proc, running, ri, installed, handler, fvars>>

\* get_stats: bpf_map_lookup_elem(stats_map_fd, STAT_BLOCKED)
MGetBlocked ==
    /\ Active("main") /\ pc["main"] = "m_get_blocked"
    /\ mloc' = [mloc EXCEPT !.blocked = stats[STAT_BLOCKED]]
    /\ Goto("main", "m_fwrite")
    /\ UNCHANGED <<kvars, rvars, proc, running, ri, installed, handler, fvars>>

\* write_stats_to_file that starts the counters afresh after each export
MFwriteReset(opened) ==
    /\ Active("main") /\ pc["main"] = "m_fwrite"
    /\ stats_file' = IF opened THEN <<mloc.total, mloc.blocked>> ELSE stats_file
    /\ stats' = [i \in DOMAIN stats |-> 0]
    /\ mloc' = [mloc EXCEPT !.total = 0, !.blocked = 0]
    /\ Goto("main", "udc_lock")
    /\ UNCHANGED <<block_set, allow_set, attached, xdp, rvars, proc, running, ri,
                   installed, handler, domain_stats_file>>

\* write_stats_to_file: fopen("/tmp/ebaf-stats.dat", "w") (it may fail), fprintf;
\* total and blocked are not read again
MFwrite(opened) ==
    /\ Active("main") /\ pc["main"] = "m_fwrite"
    /\ stats_file' = IF opened THEN <<mloc.total, mloc.blocked>> ELSE stats_file
    /\ mloc' = [mloc EXCEPT !.total = 0, !.blocked = 0]
    /\ Goto("main", "udc_lock")
    /\ UNCHANGED <<kvars, rvars, proc, running, ri, installed, handler,
                   domain_stats_file>>

\* after the loop: bpf_xdp_detach
MDetach ==
    /\ Active("main") /\ pc["main"] = "m_detach"
    /\ attached' = FALSE
    /\ Goto("main", "m_join")
    /\ UNCHANGED <<stats, block_set, allow_set, xdp, rvars, proc, running, ri, mloc,
                   installed, handler, fvars>>

\* after the loop: pthread_join(resolver_thread) returns when the thread has
\* returned; domain_store_cleanup and return 0 follow
MJoin ==
    /\ Active("main") /\ pc["main"] = "m_join"
    /\ pc["resolver"] = "returned"
    /\ Goto("main", "m_cleanup")
    /\ UNCHANGED <<kvars, rvars, proc, running, ri, mloc, installed, handler, fvars>>

(***************************************************************************)
(* cleanup(sig), the handler of SIGINT and SIGTERM.                        *)
(***************************************************************************)
Threads == {"main", "resolver"}

\* the threads that exist and have not returned
Live(t) == t = "main" \/ pc["resolver"] \notin {"none", "returned"}

HGoto(l) == handler' = [handler EXCEPT !.pc = l]

\* SIGINT or SIGTERM is delivered to thread t: before signal() has installed
\* the handler the default action ends the process; after it, cleanup starts
\* on t, which is suspended until the handler returns.  One delivery per run.
Deliver(t) ==
    /\ proc = "run" /\ handler.pc = "none" /\ Live(t)
    /\ IF installed
       THEN handler' = [on |-> t, pc |-> "h_running"] /\ UNCHANGED proc
       ELSE proc' = "killed" /\ handler' = [on |-> "none", pc |-> "default"]
    /\ UNCHANGED <<kvars, rvars, pc, running, ri, mloc, installed, fvars>>

\* running = false
HRunning ==
    /\ proc = "run" /\ handler.pc = "h_running"
    /\ running' = FALSE
    /\ HGoto("h_join")
    /\ UNCHANGED <<kvars, rvars, proc, pc, ri, mloc, installed, fvars>>

\* pthread_join(resolver_thread, NULL) in the handler: on the main thread it
\* returns when the resolver thread has returned.  On the resolver thread the
\* thread joins itself: the call fails with EDEADLK, or never returns
\* (selfjoin: which of the two).
HJoin(selfjoin) ==
    /\ proc = "run" /\ handler.pc = "h_join"
    /\ IF handler.on = "resolver"
       THEN HGoto(selfjoin)
       ELSE pc["resolver"] = "returned" /\ HGoto("h_cl_lock")
    /\ UNCHANGED <<kvars, rvars, proc, pc, running, ri, mloc, installed, fvars>>

\* domain_store_cleanup: pthread_mutex_lock(&domain_mutex), by the thread the
\* handler runs on
HCleanupLock ==
    /\ proc = "run" /\ handler.pc = "h_cl_lock"
    /\ domain_mutex = "none"
    /\ domain_mutex' = handler.on
    /\ HGoto("h_cl_body")
    /\ UNCHANGED <<kvars, domains, whitelist_patterns, whitelist_mutex, ret,
                   proc, pc, running, ri, mloc, installed, fvars>>

\* domain_store_cleanup: the registry is freed and domain_mutex released; the
\* whitelist patterns are freed under whitelist_mutex
HCleanupBody ==
    /\ proc = "run" /\ handler.pc = "h_cl_body"
    /\ whitelist_mutex = "none"
    /\ domains' = domain_store_cleanup(domains)
    /\ domain_mutex' = "none"
    /\ whitelist_patterns' = NULL
    /\ HGoto("h_detach")
    /\ UNCHANGED <<kvars, whitelist_mutex, ret, proc, pc, running, ri, mloc,
                   installed, fvars>>

\* bpf_xdp_detach(ifindex, 0, NULL)
HDetach ==
    /\ proc = "run" /\ handler.pc = "h_detach"
    /\ attached' = FALSE
    /\ HGoto("h_exit")
    /\ UNCHANGED <<stats, block_set, allow_set, xdp, rvars, proc, pc, running, ri,
                   mloc, installed, fvars>>

\* exit(0)
HExit ==
    /\ proc = "run" /\ handler.pc = "h_exit"
    /\ proc' = "exit0"
    /\ HGoto("exited")
    /\ UNCHANGED <<kvars, rvars, pc, running, ri, mloc, installed, fvars>>

(***************************************************************************)
(* main: startup.                                                          *)
(***************************************************************************)
\* ip_blacklist.h, generated at build time from the blacklist file: the
\* literal addresses (host order) and the domain names of the blacklist
blacklisted_ips == <<HostIP(1)>>
blacklisted_domains == <<(<<"a">>)>>
BLACKLIST_SIZE == Len(blacklisted_ips)
DOMAIN_LIST_SIZE == Len(blacklisted_domains)

Exit(status) ==
    /\ proc' = status
    /\ Goto("main", "done")

\* main taking any number of arguments: the first one names the interface
MArgsLenient(argc, found) ==
    /\ Active("main") /\ pc["main"] = "m_args"
    /\ IF argc >= 2
       THEN /\ mloc' = [mloc EXCEPT !.ifname = "argv[1]"]
            /\ Goto("main", "m_ifindex") /\ UNCHANGED proc
       ELSE IF found
            THEN /\ mloc' = [mloc EXCEPT !.ifname = "default_if"]
                 /\ Goto("main", "m_ifindex") /\ UNCHANGED proc
            ELSE Exit("exit1") /\ UNCHANGED mloc
    /\ UNCHANGED <<kvars, rvars, running, ri, installed, handler, fvars>>

\* lines 629-647: argc > 2 is an error; with one argument (argc = 2) ifname
\* is argv[1]; with none it is what get_default_interface() found, and the
\* run ends with status 1 when that found nothing
MArgs(argc, found) ==
    /\ Active("main") /\ pc["main"] = "m_args"
    /\ IF argc > 2
       THEN Exit("exit1") /\ UNCHANGED mloc
       ELSE IF argc = 2
            THEN /\ mloc' = [mloc EXCEPT !.ifname = "argv[1]"]
                 /\ Goto("main", "m_ifindex") /\ UNCHANGED proc
            ELSE IF found
                 THEN /\ mloc' = [mloc EXCEPT !.ifname = "default_if"]
                      /\ Goto("main", "m_ifindex") /\ UNCHANGED proc
                 ELSE Exit("exit1") /\ UNCHANGED mloc
    /\ UNCHANGED <<kvars, rvars, running, ri, installed, handler, fvars>>

\* the steps of lines 650-701 that end the run with status 1 when they fail:
\* if_nametoindex, get_bpf_object_path, bpf_object__open_file,
\* bpf_object__load, bpf_object__find_program_by_name, the two
\* bpf_object__find_map_by_name
SetupSteps == <<"m_ifindex", "m_path", "m_open", "m_load", "m_prog", "m_maps", "m_init">>

\* if_nametoindex(ifname) is the last read of ifname: from there on main
\* works with ifindex
MSetup(ok) ==
    /\ Active("main")
    /\ \E n \in 1..(Len(SetupSteps) - 1) :
            /\ pc["main"] = SetupSteps[n]
            /\ IF ok
               THEN /\ Goto("main", SetupSteps[n + 1])
                    /\ mloc' = [mloc EXCEPT !.ifname = "NULL"]
                    /\ UNCHANGED proc
               ELSE Exit("exit1") /\ UNCHANGED mloc
    /\ UNCHANGED <<kvars, rvars, running, ri, installed, handler, fvars>>

\* populate_domain_store: domain_store_init()
MInit(ok) ==
    /\ Active("main") /\ pc["main"] = "m_init"
    /\ domain_mutex = "none"
    /\ domains' = domain_store_init(domains, ok)
    /\ mloc' = [mloc EXCEPT !.i = 0]
    /\ Goto("main", "m_populate")
    /\ UNCHANGED <<kvars, domain_mutex, whitelist_patterns, whitelist_mutex, ret,
                   proc, running, ri, installed, handler, fvars>>

\* populate_domain_store: one turn of the loop over the generated list of
\* domains (names: its content in this build)
PopulateTurn(names) ==
    /\ Active("main") /\ pc["main"] = "m_populate"
    /\ IF mloc.i < Len(names)
       THEN LET r == domain_store_add(domains, names[mloc.i + 1])
            IN /\ domains' = r.reg
               /\ mloc' = [mloc EXCEPT !.i = @ + 1]
               /\ UNCHANGED pc
       ELSE /\ Goto("main", "m_zero")
            /\ UNCHANGED <<domains, mloc>>
    /\ UNCHANGED <<kvars, domain_mutex, whitelist_patterns, whitelist_mutex, ret,
                   proc, running, ri, installed, handler, fvars>>

\* populate_domain_store over blacklisted_domains
MPopulate == PopulateTurn(SubSeq(blacklisted_domains, 1, DOMAIN_LIST_SIZE))

\* lines 709-719: both counters of stats_map are written 0
MZero ==
    /\ Active("main") /\ pc["main"] = "m_zero"
    /\ stats' = [[stats EXCEPT ![STAT_TOTAL] = 0] EXCEPT ![STAT_BLOCKED] = 0]
    /\ mloc' = [mloc EXCEPT !.i = 0]
    /\ Goto("main", "m_seed")
    /\ UNCHANGED <<block_set, allow_set, attached, xdp, rvars, proc, running, ri,
                   installed, handler, fvars>>

\* a load_ip_blacklist that stops before the first address
MSeedNone(ok) ==
    /\ Active("main") /\ pc["main"] = "m_seed"
    /\ Goto("main", "m_attach")
    /\ mloc' = [mloc EXCEPT !.i = 0]
    /\ UNCHANGED <<kvars, rvars, proc, running, ri, installed, handler, fvars>>

\* load_ip_blacklist: one turn of the loop over blacklisted_ips; a
\* bpf_map_update_elem that fails (~ok) is passed over
MSeed(ok) ==
    /\ Active("main") /\ pc["main"] = "m_seed"
    /\ IF mloc.i < BLACKLIST_SIZE
       THEN /\ IF ok
               THEN block_set' \in LruUpdate(block_set, htonl(blacklisted_ips[mloc.i + 1]), 0)
               ELSE block_set' = block_set
            /\ mloc' = [mloc EXCEPT !.i = @ + 1]
            /\ UNCHANGED pc
       ELSE /\ Goto("main", "m_attach")
            /\ mloc' = [mloc EXCEPT !.i = 0]
            /\ UNCHANGED block_set
    /\ UNCHANGED <<stats, allow_set, attached, xdp, rvars, proc, running, ri,
                   installed, handler, fvars>>

\* lines 725-729: the attach modes in the order the loop tries them
xdp_flags == <<"XDP_FLAGS_DRV_MODE", "XDP_FLAGS_SKB_MODE", "0">>

\* a loop without the break: after a success the later modes are tried too
MAttachNoBreak(ok) ==
    /\ Active("main") /\ pc["main"] = "m_attach"
    /\ IF mloc.i < ATTACH_MODES
       THEN /\ attached' = (attached \/ ok)
            /\ mloc' = [mloc EXCEPT !.i = @ + 1]
            /\ UNCHANGED <<pc, proc>>
       ELSE /\ IF attached
               THEN Goto("main", "m_create") /\ UNCHANGED proc
               ELSE Exit("exit1")
            /\ UNCHANGED <<attached, mloc>>
    /\ UNCHANGED <<stats, block_set, allow_set, xdp, rvars, running, ri,
                   installed, handler, fvars>>

\* lines 738-757: bpf_xdp_attach in mode i succeeds (the loop ends) or fails
\* (the next mode is tried); with no mode left the run ends with status 1
MAttach(ok) ==
    /\ Active("main") /\ pc["main"] = "m_attach"
    /\ IF mloc.i < ATTACH_MODES
       THEN IF ok
            THEN /\ attached' = TRUE
                 /\ Goto("main", "m_create")
                 /\ UNCHANGED <<mloc, proc>>
            ELSE /\ mloc' = [mloc EXCEPT !.i = @ + 1]
                 /\ UNCHANGED <<attached, pc, proc>>
       ELSE /\ Exit("exit1")
            /\ UNCHANGED <<attached, mloc>>
    /\ UNCHANGED <<stats, block_set, allow_set, xdp, rvars, running, ri,
                   installed, handler, fvars>>

\* lines 760-763: pthread_create starts resolver_thread_func, or fails and the
\* run ends with status 1
MCreate(ok) ==
    /\ Active("main") /\ pc["main"] = "m_create"
    /\ IF ok
       THEN pc' = [pc EXCEPT !["main"] = "m_signal", !["resolver"] = "r_top"]
                /\ UNCHANGED proc
       ELSE Exit("exit1")
    /\ UNCHANGED <<kvars, rvars, running, ri, mloc, installed, handler, fvars>>

\* lines 766-767: signal(SIGINT, cleanup); signal(SIGTERM, cleanup)
MSignal ==
    /\ Active("main") /\ pc["main"] = "m_signal"
    /\ installed' = TRUE
    /\ Goto("main", "m_loop")
    /\ UNCHANGED <<kvars, rvars, proc, running, ri, mloc, handler, fvars>>

(***************************************************************************)
(* The program: from the start of main.                                    *)
(***************************************************************************)
\* the frames on the wire in a run of the whole program: complete IPv4
\* frames from the second address, to the first address and to itself
LifePackets ==
    {Packet(FullLen, htons(ETH_P_IP), htonl(HostIP(2)), htonl(HostIP(n))) : n \in 1..2}

\* gethostbyname in a run of the whole program: no answer, or the first address
LifeAnswers == {<<>>, <<htonl(HostIP(1))>>}

Init ==
    /\ stats = [i \in {STAT_TOTAL, STAT_BLOCKED} |-> 0]
    /\ block_set = EmptyMap
    /\ allow_set = EmptyMap
    /\ attached = FALSE
    /\ xdp = [q \in Queues |-> XdpIdle]
    /\ domains = NULL
    /\ domain_mutex = "none"
    /\ whitelist_patterns = NULL
    /\ whitelist_mutex = "none"
    /\ ret = 0
    /\ proc = "run"
    /\ pc = [t \in Threads |-> IF t = "main" THEN "m_args" ELSE "none"]
    /\ running = TRUE
    /\ ri = 0
    /\ mloc = [ifname |-> "NULL", i |-> 0, total |-> 0, blocked |-> 0, elapsed |-> EXPORT_PERIOD]
    /\ installed = FALSE
    /\ handler = [on |-> "none", pc |-> "none"]
    /\ stats_file = <<>>
    /\ domain_stats_file = NoFile

Classifier ==
    \E q \in Queues :
        \/ \E p \in LifePackets :
                stats[STAT_TOTAL] < MaxLifePackets /\ XdpTotal(q, p)
        \/ XdpParse(q)
        \/ XdpFilter(q)

Startup ==
    \/ \E argc \in 1..3, found \in BOOLEAN : MArgs(argc, found)
    \/ \E ok \in BOOLEAN : MSetup(ok)
    \/ \E ok \in BOOLEAN : MInit(ok)
    \/ MPopulate
    \/ MZero
    \/ \E ok \in BOOLEAN : MSeed(ok)
    \/ \E ok \in BOOLEAN : MAttach(ok)
    \/ \E ok \in BOOLEAN : MCreate(ok)
    \/ MSignal

Exporter ==
    \/ MLoop
    \/ MGetTotal
    \/ MGetBlocked
    \/ \E opened \in BOOLEAN : MFwrite(opened)
    \/ MDetach

Resolver ==
    \/ RTop
    \/ RCount
    \/ RInitLock
    \/ \E ok \in BOOLEAN : RInitBody(ok)
    \/ \E addr_list \in LifeAnswers : RResolve(addr_list)
    \/ RResolved
    \/ RSleep

Locked ==
    \E t \in Threads :
        \/ UdcLock(t)
        \/ UdcBody(t)
        \/ WsfLock(t)
        \/ \E opened \in BOOLEAN : WsfBody(t, opened)

Signal ==
    \/ \E t \in Threads : Deliver(t)
    \/ HRunning
    \/ \E selfjoin \in {"h_cl_lock", "h_stuck"} : HJoin(selfjoin)
    \/ HCleanupLock
    \/ HCleanupBody
    \/ HDetach
    \/ HExit

Next == Classifier \/ Startup \/ Exporter \/ Resolver \/ Locked \/ Signal

Spec == Init /\ [][Next]_vars

(***************************************************************************)
(* The operations of resolver.c called directly, outside the threads.      *)
(***************************************************************************)
\* the names gethostbyname is asked about, and its answers: no address
\* (failure), one address, or two
Names == {<<"a">>, <<"b">>}
DnsAnswers ==
    {<<>>, <<htonl(HostIP(1))>>, <<htonl(HostIP(2))>>,
     <<htonl(HostIP(2)), htonl(HostIP(NumIPs))>>}
Dns == [Names -> {<<>>, <<htonl(HostIP(1))>>, <<htonl(HostIP(2))>>}]

\* a line of a list file that holds one entry and nothing else
TextLine(entry) == entry \o <<"\n">>

\* spotify-blacklist.txt as whitelist_resolver_update reads it: missing, or
\* one line for each entry blacklisted_domains was generated from
BlacklistFiles ==
    {NoFile,
     File([i \in 1..Len(blacklisted_domains) |-> TextLine(blacklisted_domains[i])])}

\* spotify-whitelist.txt: one pattern with a wildcard; an empty line and a
\* name followed by a comment; or one comment line
WhitelistFiles ==
    {File(<<TextLine(<<"*">>)>>),
     File(<<(<<"\n">>), (<<"b", " ", "#", "a", "\n">>)>>),
     File(<<(<<"#", " ", "b", "\n">>)>>)}

\* resolve_domain_to_ip(domains[i - 1].domain, &ip, map_fd)
ResolveDomain(i, addr_list) ==
    /\ proc = "run"
    /\ i \in 1..domain_count
    /\ \E r \in resolve_domain_to_ip(domains, block_set, domains.elems[i].domain, addr_list) :
            /\ domains' = r[1]
            /\ block_set' = r[2]
    /\ UNCHANGED <<stats, allow_set, attached, xdp, domain_mutex, whitelist_patterns,
                   whitelist_mutex, ret, tvars, fvars>>

\* whitelist_resolver_update(whitelist_map_fd)
WhitelistResolverUpdate(blacklist_file, dns) ==
    /\ proc = "run"
    /\ whitelist_mutex = "none"
    /\ allow_set' = whitelist_resolver_update(allow_set, whitelist_patterns,
                                              blacklist_file, dns)
    /\ UNCHANGED <<stats, block_set, attached, xdp, rvars, tvars, fvars>>

\* whitelist_resolver_init(whitelist_map_fd): load_whitelist_patterns, then
\* whitelist_resolver_update.  When no whitelist file is found the search
\* loop reads past the two paths of whitelist_paths; what lies there is
\* arbitrary (past_end): NULL ends the loop and the patterns stay as they
\* were, anything else is handed to fopen and the process faults.
WhitelistResolverInit(file, past_end, blacklist_file, dns) ==
    /\ proc = "run"
    /\ whitelist_mutex = "none"
    /\ IF file.exists
       THEN LET loaded == load_whitelist_patterns(file)
            IN /\ whitelist_patterns' = loaded
               /\ allow_set' = whitelist_resolver_update(allow_set, loaded,
                                                         blacklist_file, dns)
            /\ UNCHANGED proc
       ELSE /\ proc' = IF past_end = "NULL" THEN proc ELSE "killed"
            /\ UNCHANGED <<whitelist_patterns, allow_set>>
    /\ UNCHANGED <<stats, block_set, attached, xdp, domains, domain_mutex,
                   whitelist_mutex, ret, pc, running, ri, mloc, installed, handler, fvars>>

\* domain_store_init()
StoreInit(ok) ==
    /\ proc = "run"
    /\ domain_mutex = "none"
    /\ domains' = domain_store_init(domains, ok)
    /\ UNCHANGED <<kvars, domain_mutex, whitelist_patterns, whitelist_mutex, ret,
                   tvars, fvars>>

\* domain_store_add(name)
StoreAdd(name) ==
    /\ proc = "run"
    /\ domain_mutex = "none"
    /\ domains' = domain_store_add(domains, name).reg
    /\ ret' = domain_store_add(domains, name).ret
    /\ UNCHANGED <<kvars, domain_mutex, whitelist_patterns, whitelist_mutex,
                   tvars, fvars>>

\* domain_store_update_drop_counts(blacklist_ip_map_fd)
StoreUpdateDrops ==
    /\ proc = "run"
    /\ domain_mutex = "none"
    /\ domains' = domain_store_update_drop_counts(domains, block_set)
    /\ UNCHANGED <<kvars, domain_mutex, whitelist_patterns, whitelist_mutex, ret,
                   tvars, fvars>>

\* domain_store_get_drops(name)
StoreGetDrops(name) ==
    /\ proc = "run"
    /\ domain_mutex = "none"
    /\ ret' = domain_store_get_drops(domains, name)
    /\ UNCHANGED <<kvars, domains, domain_mutex, whitelist_patterns, whitelist_mutex,
                   tvars, fvars>>

\* domain_store_cleanup()
StoreCleanup ==
    /\ proc = "run"
    /\ domain_mutex = "none" /\ whitelist_mutex = "none"
    /\ domains' = domain_store_cleanup(domains)
    /\ whitelist_patterns' = NULL
    /\ UNCHANGED <<kvars, domain_mutex, whitelist_mutex, ret, tvars, fvars>>

(***************************************************************************)
(* The classifier at work: the states main can leave when it enters its    *)
(* loop (the static address seeded or not), packets of every kind, and the *)
(* calls that write the two address maps.                                  *)
(***************************************************************************)
InitXdp ==
    /\ stats = [i \in {STAT_TOTAL, STAT_BLOCKED} |-> 0]
    /\ block_set \in {EmptyMap, [k \in {htonl(blacklisted_ips[1])} |-> 0]}
    /\ allow_set = EmptyMap
    /\ attached = TRUE
    /\ xdp = [q \in Queues |-> XdpIdle]
    /\ domains = Array(<<NewEntry(blacklisted_domains[1])>>)
    /\ domain_mutex = "none"
    /\ whitelist_patterns = NULL
    /\ whitelist_mutex = "none"
    /\ ret = 0
    /\ proc = "run"
    /\ pc = [t \in Threads |-> IF t = "main" THEN "m_loop" ELSE "r_top"]
    /\ running = TRUE
    /\ ri = 0
    /\ mloc = [ifname |-> "NULL", i |-> 0, total |-> 0, blocked |-> 0, elapsed |-> 0]
    /\ installed = TRUE
    /\ handler = [on |-> "none", pc |-> "none"]
    /\ stats_file = <<>>
    /\ domain_stats_file = NoFile

NextXdp ==
    \/ \E q \in Queues, p \in Packets :
            stats[STAT_TOTAL] < MaxPackets /\ XdpTotal(q, p)
    \/ \E q \in Queues : XdpParse(q)
    \/ \E q \in Queues : XdpFilter(q)
    \/ \E i \in 1..MAX_DOMAINS, addr_list \in DnsAnswers : ResolveDomain(i, addr_list)
    \/ \E file \in WhitelistFiles, blacklist_file \in BlacklistFiles, dns \in Dns :
            WhitelistResolverInit(file, "NULL", blacklist_file, dns)
    \/ \E past_end \in {"NULL", "other"} :
            WhitelistResolverInit(NoFile, past_end, NoFile, [n \in Names |-> <<>>])
    \/ \E blacklist_file \in BlacklistFiles, dns \in Dns :
            WhitelistResolverUpdate(blacklist_file, dns)

SpecXdp == InitXdp /\ [][NextXdp]_vars

(***************************************************************************)
(* The registry on its own: init, add and cleanup in any order, with short *)
(* names and with names around the size of the name buffer.                *)
(***************************************************************************)
\* a name of n characters c
LongName(n, c) == [i \in 1..n |-> c]

StoreNames ==
    {<<"a">>, <<"b">>, <<"c">>}
        \cup {LongName(n, "x") : n \in (DOMAIN_MAX_SIZE - 2)..(DOMAIN_MAX_SIZE + 1)}

InitStore ==
    /\ stats = [i \in {STAT_TOTAL, STAT_BLOCKED} |-> 0]
    /\ block_set = EmptyMap
    /\ allow_set = EmptyMap
    /\ attached = FALSE
    /\ xdp = [q \in Queues |-> XdpIdle]
    /\ domains = NULL
    /\ domain_mutex = "none"
    /\ whitelist_patterns = NULL
    /\ whitelist_mutex = "none"
    /\ ret = 0
    /\ proc = "run"
    /\ pc = [t \in Threads |-> IF t = "main" THEN "m_init" ELSE "none"]
    /\ running = TRUE
    /\ ri = 0
    /\ mloc = [ifname |-> "NULL", i |-> 0, total |-> 0, blocked |-> 0, elapsed |-> EXPORT_PERIOD]
    /\ installed = FALSE
    /\ handler = [on |-> "none", pc |-> "none"]
    /\ stats_file = <<>>
    /\ domain_stats_file = NoFile

NextStore ==
    \/ \E ok \in BOOLEAN : StoreInit(ok)
    \/ \E name \in StoreNames : StoreAdd(name)
    \/ \E i \in 1..MAX_DOMAINS : ResolveDomain(i, <<htonl(HostIP(1))>>)
    \/ StoreCleanup

SpecStore == InitStore /\ [][NextStore]_vars

(***************************************************************************)
(* The program with fair scheduling: a thread that can take a step of its  *)
(* code, or of the handler running on it, eventually takes one.  Packets   *)
(* and signals may or may not arrive.                                      *)
(***************************************************************************)
ThreadLocked(t) ==
    UdcLock(t) \/ UdcBody(t) \/ WsfLock(t) \/ \E opened \in BOOLEAN : WsfBody(t, opened)

MainStep == Startup \/ Exporter \/ ThreadLocked("main")

ResolverStep == Resolver \/ ThreadLocked("resolver")

HandlerStep == HRunning \/ HCleanupLock \/ HCleanupBody \/ HDetach \/ HExit
                \/ \E selfjoin \in {"h_cl_lock", "h_stuck"} : HJoin(selfjoin)

SpecFair ==
    Init /\ [][Next]_vars
        /\ WF_vars(MainStep) /\ WF_vars(ResolverStep) /\ WF_vars(HandlerStep)

(***************************************************************************)
(* The resolver thread at work on a blacklist of two domains, next to the  *)
(* classifier: main from populate_domain_store on, with the classifier     *)
(* object loaded, and without its export loop and the signals.             *)
(***************************************************************************)
\* the domains of the blacklist in these runs
ResolverDomains == <<(<<"a">>), (<<"b">>)>>

InitResolver ==
    /\ stats = [i \in {STAT_TOTAL, STAT_BLOCKED} |-> 0]
    /\ block_set = EmptyMap
    /\ allow_set = EmptyMap
    /\ attached = FALSE
    /\ xdp = [q \in Queues |-> XdpIdle]
    /\ domains = NULL
    /\ domain_mutex = "none"
    /\ whitelist_patterns = NULL
    /\ whitelist_mutex = "none"
    /\ ret = 0
    /\ proc = "run"
    /\ pc = [t \in Threads |-> IF t = "main" THEN "m_init" ELSE "none"]
    /\ running = TRUE
    /\ ri = 0
    /\ mloc = [ifname |-> "NULL", i |-> 0, total |-> 0, blocked |-> 0, elapsed |-> 0]
    /\ installed = FALSE
    /\ handler = [on |-> "none", pc |-> "none"]
    /\ stats_file = <<>>
    /\ domain_stats_file = NoFile

\* main from populate_domain_store to the installation of the handlers
StartupResolver ==
    \/ \E ok \in BOOLEAN : MInit(ok)
    \/ PopulateTurn(ResolverDomains)
    \/ MZero
    \/ \E ok \in BOOLEAN : MSeed(ok)
    \/ \E ok \in BOOLEAN : MAttach(ok)
    \/ \E ok \in BOOLEAN : MCreate(ok)
    \/ MSignal

NextResolver ==
    \/ Classifier
    \/ StartupResolver
    \/ RTop
    \/ RCount
    \/ RInitLock
    \/ \E ok \in BOOLEAN : RInitBody(ok)
    \/ \E addr_list \in DnsAnswers : RResolve(addr_list)
    \/ RResolved
    \/ RSleep
    \/ ThreadLocked("resolver")

SpecResolver == InitResolver /\ [][NextResolver]_vars

(***************************************************************************)
(* The whitelist resolver on patterns of every kind: whitelist_resolver_init*)
(* and whitelist_resolver_update called next to the blacklist resolver.    *)
(***************************************************************************)
\* the names gethostbyname may be asked about when a pattern is taken for a
\* name, and its answers
GlobNames == Names \cup {<<"?">>}
GlobDns == [GlobNames -> {<<>>, <<htonl(HostIP(1))>>, <<htonl(HostIP(2))>>}]

\* spotify-whitelist.txt: the files above, or one pattern made of `?`
GlobFiles == WhitelistFiles \cup {File(<<TextLine(<<"?">>)>>)}

InitWhitelist == InitXdp

NextWhitelist ==
    \/ \E i \in 1..MAX_DOMAINS, addr_list \in DnsAnswers : ResolveDomain(i, addr_list)
    \/ \E file \in GlobFiles, blacklist_file \in BlacklistFiles, dns \in GlobDns :
            WhitelistResolverInit(file, "NULL", blacklist_file, dns)
    \/ \E blacklist_file \in BlacklistFiles, dns \in GlobDns :
            WhitelistResolverUpdate(blacklist_file, dns)

SpecWhitelist == InitWhitelist /\ [][NextWhitelist]_vars

(***************************************************************************)
(* The drop counts of the registry: the rollup and the query called next   *)
(* to the classifier and the blacklist resolver, on two domains.           *)
(***************************************************************************)
InitDrops ==
    /\ stats = [i \in {STAT_TOTAL, STAT_BLOCKED} |-> 0]
    /\ block_set \in {EmptyMap, [k \in {htonl(blacklisted_ips[1])} |-> 0]}
    /\ allow_set = EmptyMap
    /\ attached = TRUE
    /\ xdp = [q \in Queues |-> XdpIdle]
    /\ domains = Array([i \in 1..Len(ResolverDomains) |-> NewEntry(ResolverDomains[i])])
    /\ domain_mutex = "none"
    /\ whitelist_patterns = NULL
    /\ whitelist_mutex = "none"
    /\ ret = 0
    /\ proc = "run"
    /\ pc = [t \in Threads |-> IF t = "main" THEN "m_loop" ELSE "r_top"]
    /\ running = TRUE
    /\ ri = 0
    /\ mloc = [ifname |-> "NULL", i |-> 0, total |-> 0, blocked |-> 0, elapsed |-> 0]
    /\ installed = TRUE
    /\ handler = [on |-> "none", pc |-> "none"]
    /\ stats_file = <<>>
    /\ domain_stats_file = NoFile

\* the names domain_store_get_drops is asked about: the two registered ones
\* and one that is not
DropsNames == {<<"a">>, <<"b">>, <<"c">>}

NextDrops ==
    \/ \E q \in Queues, p \in LifePackets :
            stats[STAT_TOTAL] < MaxPackets /\ XdpTotal(q, p)
    \/ \E q \in Queues : XdpParse(q)
    \/ \E q \in Queues : XdpFilter(q)
    \/ \E i \in 1..MAX_DOMAINS, addr_list \in DnsAnswers : ResolveDomain(i, addr_list)
    \/ StoreUpdateDrops
    \/ \E name \in DropsNames : StoreGetDrops(name)

SpecDrops == InitDrops /\ [][NextDrops]_vars

(***************************************************************************)
(* The IP list of a registry entry: a domain whose answers change over time *)
(* until the list has been full twice, next to a domain with one address.  *)
(***************************************************************************)
\* the answers of gethostbyname for the domain: a failure, one of the first
\* INITIAL_IP_CAPACITY addresses, the same address twice, or all the others
IpsAnswers ==
    {<<>>, <<htonl(HostIP(1)), htonl(HostIP(1))>>}
        \cup {<<htonl(HostIP(n))>> : n \in 1..INITIAL_IP_CAPACITY}
        \cup {[i \in 1..(ManyIPs - INITIAL_IP_CAPACITY) |->
                    htonl(HostIP(INITIAL_IP_CAPACITY + i))]}

InitIps ==
    /\ stats = [i \in {STAT_TOTAL, STAT_BLOCKED} |-> 0]
    /\ block_set = EmptyMap
    /\ allow_set = EmptyMap
    /\ attached = TRUE
    /\ xdp = [q \in Queues |-> XdpIdle]
    /\ domains = Array(<<>>)
    /\ domain_mutex = "none"
    /\ whitelist_patterns = NULL
    /\ whitelist_mutex = "none"
    /\ ret = 0
    /\ proc = "run"
    /\ pc = [t \in Threads |-> IF t = "main" THEN "m_loop" ELSE "r_top"]
    /\ running = TRUE
    /\ ri = 0
    /\ mloc = [ifname |-> "NULL", i |-> 0, total |-> 0, blocked |-> 0, elapsed |-> 0]
    /\ installed = TRUE
    /\ handler = [on |-> "none", pc |-> "none"]
    /\ stats_file = <<>>
    /\ domain_stats_file = NoFile

NextIps ==
    \/ \E name \in ({ResolverDomains[i] : i \in 1..Len(ResolverDomains)}) : StoreAdd(name)
    \/ \E addr_list \in IpsAnswers : ResolveDomain(1, addr_list)
    \/ ResolveDomain(2, <<htonl(HostIP(1))>>)

SpecIps == InitIps /\ [][NextIps]_vars

(***************************************************************************)
(* The counters under parallel invocations: the classifier on one receive   *)
(* queue more than NumQueues, a step for each map access, next to the      *)
(* resolver's inserts and the rollup in user space.                        *)
(***************************************************************************)
ParQueues == 1..(NumQueues + 1)

\* the packets: to a listed address, from one, between unlisted ones, and
\* one too short to parse
ParPackets ==
    {Packet(FullLen, htons(ETH_P_IP), htonl(HostIP(2)), htonl(HostIP(1))),
     Packet(FullLen, htons(ETH_P_IP), htonl(HostIP(1)), htonl(HostIP(NumIPs))),
     Packet(FullLen, htons(ETH_P_IP), htonl(HostIP(NumIPs)), htonl(HostIP(2))),
     Packet(ETH_HLEN - 1, htons(ETH_P_IP), htonl(HostIP(1)), htonl(HostIP(1)))}

\* the answers of gethostbyname for the first domain: the address of the
\* static list, or two others
ParAnswers == {<<htonl(HostIP(1))>>, <<htonl(HostIP(2)), htonl(HostIP(NumIPs))>>}

InitPar ==
    /\ stats = [i \in {STAT_TOTAL, STAT_BLOCKED} |-> 0]
    /\ block_set \in {EmptyMap, [k \in {htonl(blacklisted_ips[1])} |-> 0]}
    /\ allow_set = EmptyMap
    /\ attached = TRUE
    /\ xdp = [q \in ParQueues |-> XdpIdle]
    /\ domains = Array([i \in 1..Len(ResolverDomains) |-> NewEntry(ResolverDomains[i])])
    /\ domain_mutex = "none"
    /\ whitelist_patterns = NULL
    /\ whitelist_mutex = "none"
    /\ ret = 0
    /\ proc = "run"
    /\ pc = [t \in Threads |-> IF t = "main" THEN "m_loop" ELSE "r_top"]
    /\ running = TRUE
    /\ ri = 0
    /\ mloc = [ifname |-> "NULL", i |-> 0, total |-> 0, blocked |-> 0, elapsed |-> 0]
    /\ installed = TRUE
    /\ handler = [on |-> "none", pc |-> "none"]
    /\ stats_file = <<>>
    /\ domain_stats_file = NoFile

NextPar ==
    \/ \E q \in ParQueues, p \in ParPackets :
            stats[STAT_TOTAL] < MaxPackets /\ XdpTotal(q, p)
    \/ \E q \in ParQueues : XdpParse(q)
    \/ \E q \in ParQueues : XdpLookup(q)
    \/ \E q \in ParQueues : XdpBlocked(q)
    \/ \E q \in ParQueues, lost \in BOOLEAN, to \in NetIPs : XdpCount(q, lost, to)
    \/ \E addr_list \in ParAnswers : ResolveDomain(1, addr_list)
    \/ ResolveDomain(2, <<htonl(HostIP(2))>>)
    \/ StoreUpdateDrops

SpecPar == InitPar /\ [][NextPar]_vars

(***************************************************************************)
(* The locking of the registry and whitelist operations: each operation    *)
(* called by the two threads, a step for pthread_mutex_lock and a step for *)
(* the code up to the return, with the pthread_mutex_unlock of the path.   *)
(***************************************************************************)
\* pthread_mutex_unlock(&mutex) by thread t: the mutex is free afterwards;
\* unlocking a mutex the thread does not hold is undefined, and leaves it
\* "broken"
Unlock(owner, t) == IF owner = t THEN "none" ELSE "broken"

\* the names the operations are called with: one more than the registry holds
LockNames == DropsNames \cup {<<"d">>}

\* domain_store_add: if (!domains) return -1; pthread_mutex_lock
CallAdd(t) ==
    /\ Active(t) /\ pc[t] = AfterExport(t)
    /\ IF ~domains.alloc
       THEN ret' = -1 /\ UNCHANGED <<domain_mutex, pc>>
       ELSE /\ domain_mutex = "none"
            /\ domain_mutex' = t
            /\ Goto(t, "add_body")
            /\ UNCHANGED ret
    /\ UNCHANGED <<kvars, domains, whitelist_patterns, whitelist_mutex,
                   proc, running, ri, mloc, installed, handler, fvars>>

\* domain_store_add that returns -1 for a full registry with the mutex held
BodyAddFullKeepsLock(t, name) ==
    /\ Active(t) /\ pc[t] = "add_body"
    /\ domains' = domain_store_add(domains, name).reg
    /\ ret' = domain_store_add(domains, name).ret
    /\ domain_mutex' = IF FindDomain(domains, name) = 0 /\ domain_count >= MAX_DOMAINS
                       THEN domain_mutex ELSE Unlock(domain_mutex, t)
    /\ Goto(t, AfterExport(t))
    /\ UNCHANGED <<kvars, whitelist_patterns, whitelist_mutex,
                   proc, running, ri, mloc, installed, handler, fvars>>

\* domain_store_add after the lock: the name is found (unlock, return 0),
\* the registry is full (unlock, return -1), or the name is appended
\* (unlock, return 0)
BodyAdd(t, name) ==
    /\ Active(t) /\ pc[t] = "add_body"
    /\ domains' = domain_store_add(domains, name).reg
    /\ ret' = domain_store_add(domains, name).ret
    /\ domain_mutex' = Unlock(domain_mutex, t)
    /\ Goto(t, AfterExport(t))
    /\ UNCHANGED <<kvars, whitelist_patterns, whitelist_mutex,
                   proc, running, ri, mloc, installed, handler, fvars>>

\* domain_store_get_drops: pthread_mutex_lock
CallGetDrops(t) ==
    /\ Active(t) /\ pc[t] = AfterExport(t)
    /\ domain_mutex = "none"
    /\ domain_mutex' = t
    /\ Goto(t, "get_drops_body")
    /\ UNCHANGED <<kvars, domains, whitelist_patterns, whitelist_mutex, ret,
                   proc, running, ri, mloc, installed, handler, fvars>>

\* domain_store_get_drops after the lock: the name is found (unlock, return
\* its count) or not (unlock, return 0)
BodyGetDrops(t, name) ==
    /\ Active(t) /\ pc[t] = "get_drops_body"
    /\ ret' = domain_store_get_drops(domains, name)
    /\ domain_mutex' = Unlock(domain_mutex, t)
    /\ Goto(t, AfterExport(t))
    /\ UNCHANGED <<kvars, domains, whitelist_patterns, whitelist_mutex,
                   proc, running, ri, mloc, installed, handler, fvars>>

\* the call of domain_store_update_drop_counts that domain_store_write_stats_file
\* follows, in write_stats_to_file and in resolver_thread_func
CallRollup(t) ==
    /\ Active(t) /\ pc[t] = AfterExport(t)
    /\ Goto(t, "udc_lock")
    /\ UNCHANGED <<kvars, rvars, proc, running, ri, mloc, installed, handler, fvars>>

\* whitelist_resolver_init: pthread_mutex_lock(&whitelist_mutex)
CallWhitelistInit(t) ==
    /\ Active(t) /\ pc[t] = AfterExport(t)
    /\ whitelist_mutex = "none"
    /\ whitelist_mutex' = t
    /\ Goto(t, "wl_load")
    /\ UNCHANGED <<kvars, domains, domain_mutex, whitelist_patterns, ret,
                   proc, running, ri, mloc, installed, handler, fvars>>

\* whitelist_resolver_init after the lock: load_whitelist_patterns fails
\* (unlock, return), or loads the patterns (unlock, then the call of
\* whitelist_resolver_update).  With no file the path loop reads past the
\* end of whitelist_paths (past_end: what it finds there).
BodyWhitelistLoad(t, file, past_end) ==
    /\ Active(t) /\ pc[t] = "wl_load"
    /\ IF file.exists
       THEN /\ whitelist_patterns' = load_whitelist_patterns(file)
            /\ whitelist_mutex' = Unlock(whitelist_mutex, t)
            /\ Goto(t, "wl_update_call")
            /\ UNCHANGED proc
       ELSE IF past_end = "NULL"
       THEN /\ whitelist_mutex' = Unlock(whitelist_mutex, t)
            /\ Goto(t, AfterExport(t))
            /\ UNCHANGED <<whitelist_patterns, proc>>
       ELSE /\ proc' = "killed"
            /\ UNCHANGED <<whitelist_patterns, whitelist_mutex, pc>>
    /\ UNCHANGED <<kvars, domains, domain_mutex, ret,
                   running, ri, mloc, installed, handler, fvars>>

\* whitelist_resolver_update, called on its own or from
\* whitelist_resolver_init: return when no pattern is loaded; else
\* pthread_mutex_lock(&whitelist_mutex)
CallWhitelistUpdate(t) ==
    /\ Active(t) /\ pc[t] \in {AfterExport(t), "wl_update_call"}
    /\ IF ~whitelist_patterns.alloc \/ Len(whitelist_patterns.elems) = 0
       THEN Goto(t, AfterExport(t)) /\ UNCHANGED whitelist_mutex
       ELSE /\ whitelist_mutex = "none"
            /\ whitelist_mutex' = t
            /\ Goto(t, "wl_update")
    /\ UNCHANGED <<kvars, domains, domain_mutex, whitelist_patterns, ret,
                   proc, running, ri, mloc, installed, handler, fvars>>

\* whitelist_resolver_update after the lock: the blacklist file cannot be
\* opened (unlock, return), or the two steps and the unlock at the end
BodyWhitelistUpdate(t, blacklist_file, dns) ==
    /\ Active(t) /\ pc[t] = "wl_update"
    /\ allow_set' = whitelist_resolver_update(allow_set, whitelist_patterns,
                                              blacklist_file, dns)
    /\ whitelist_mutex' = Unlock(whitelist_mutex, t)
    /\ Goto(t, AfterExport(t))
    /\ UNCHANGED <<stats, block_set, attached, xdp, domains, domain_mutex,
                   whitelist_patterns, ret,
                   proc, running, ri, mloc, installed, handler, fvars>>

InitLock ==
    /\ stats = [i \in {STAT_TOTAL, STAT_BLOCKED} |-> 0]
    /\ block_set = EmptyMap
    /\ allow_set = EmptyMap
    /\ attached = TRUE
    /\ xdp = [q \in Queues |-> XdpIdle]
    /\ domains \in {NULL, Array(<<>>)}
    /\ domain_mutex = "none"
    /\ whitelist_patterns = NULL
    /\ whitelist_mutex = "none"
    /\ ret = 0
    /\ proc = "run"
    /\ pc = [t \in Threads |-> AfterExport(t)]
    /\ running = TRUE
    /\ ri = 0
    /\ mloc = [ifname |-> "NULL", i |-> 0, total |-> 0, blocked |-> 0, elapsed |-> 0]
    /\ installed = TRUE
    /\ handler = [on |-> "none", pc |-> "none"]
    /\ stats_file = <<>>
    /\ domain_stats_file = NoFile

NextLock ==
    \E t \in Threads :
        \/ CallAdd(t)
        \/ \E name \in LockNames : BodyAdd(t, name)
        \/ CallGetDrops(t)
        \/ \E name \in LockNames : BodyGetDrops(t, name)
        \/ CallRollup(t)
        \/ ThreadLocked(t)
        \/ CallWhitelistInit(t)
        \/ \E file \in WhitelistFiles \cup {NoFile}, past_end \in {"NULL", "other"} :
                BodyWhitelistLoad(t, file, past_end)
        \/ CallWhitelistUpdate(t)
        \/ \E blacklist_file \in BlacklistFiles, dns \in Dns :
                BodyWhitelistUpdate(t, blacklist_file, dns)

SpecLock == InitLock /\ [][NextLock]_vars

(***************************************************************************)
(* Properties of the classifier.                                           *)
(***************************************************************************)
\* a frame that holds a whole Ethernet header and a whole IPv4 header, and whose
\* EtherType is IPv4
UntruncatedIPv4(p) == p.len >= 34 /\ Bswap16(p.h_proto) = 2048

\* queue q takes a packet, and queue q returns a verdict, in this step
Arrives(q) == xdp[q].pc = "idle" /\ xdp'[q].pc = "total"
Returns(q) == xdp[q].pc # "idle" /\ xdp'[q].pc = "idle"

Listed(m, p) == p.daddr \in DOMAIN m \/ p.saddr \in DOMAIN m

\* C1: a packet whose source or destination address is in allow_set when the
\* classifier looks it up is passed, whatever block_set holds
C1_AllowPrecedence ==
    [][\A q \in Queues :
        (Returns(q) /\ UntruncatedIPv4(xdp[q].pkt) /\ Listed(allow_set, xdp[q].pkt))
            => xdp'[q].verdict = XDP_PASS]_vars

\* C2: an untruncated IPv4 packet with no endpoint in allow_set is dropped if
\* and only if its destination or its source is a key of block_set; every
\* other packet that is not allow-listed is passed; while block_set is empty
\* no packet is dropped and stats[BLOCKED] does not move
C2_Verdict ==
    [][\A q \in Queues :
        (Returns(q) /\ ~(UntruncatedIPv4(xdp[q].pkt) /\ Listed(allow_set, xdp[q].pkt)))
            => /\ xdp'[q].verdict =
                    IF UntruncatedIPv4(xdp[q].pkt) /\ Listed(block_set, xdp[q].pkt)
                    THEN XDP_DROP ELSE XDP_PASS
               /\ DOMAIN block_set = {}
                    => xdp'[q].verdict = XDP_PASS
                        /\ stats'[STAT_BLOCKED] = stats[STAT_BLOCKED]]_vars

\* C2: a packet to an address that is not blocked was dropped because its
\* source is a key of block_set
C2_Witness ==
    \E q \in Queues :
        /\ xdp[q].pc = "idle" /\ xdp[q].verdict = XDP_DROP
        /\ ~Listed(allow_set, xdp[q].pkt)
        /\ xdp[q].pkt.saddr \in DOMAIN block_set
        /\ xdp[q].pkt.daddr \notin DOMAIN block_set

\* the per-IP counters of block_set after a drop charged to key k
Charged(k) == [x \in DOMAIN block_set |-> IF x = k THEN block_set[x] + 1 ELSE block_set[x]]

C4_FailOpen ==
    [][\A q \in Queues :
        (xdp'[q] # xdp[q] /\ xdp[q].pc # "idle" /\ ~UntruncatedIPv4(xdp[q].pkt))
            => /\ xdp[q].pc = "total"
               /\ xdp'[q].pc = "idle"
               /\ xdp'[q].verdict = XDP_PASS
               /\ stats'[STAT_BLOCKED] = stats[STAT_BLOCKED]
               /\ block_set' = block_set]_vars

\* C4: a 14-byte IPv4 frame was passed although the address lying where its
\* destination would be is a key of block_set, and nothing was counted blocked
C4_Witness ==
    \E q \in Queues :
        /\ xdp[q].pc = "idle" /\ xdp[q].verdict = XDP_PASS
        /\ xdp[q].pkt.len = 14 /\ Bswap16(xdp[q].pkt.h_proto) = 2048
        /\ xdp[q].pkt.daddr \in DOMAIN block_set
        /\ stats[STAT_BLOCKED] = 0

\* C5: stats[TOTAL] grows by exactly 1 in the step in which a queue takes a
\* packet, which comes before the parsing, and in no other step
C5_TotalAccounting ==
    [][/\ \A q \in Queues : Arrives(q) => stats'[STAT_TOTAL] = stats[STAT_TOTAL] + 1
       /\ (\A q \in Queues : ~Arrives(q)) => stats'[STAT_TOTAL] = stats[STAT_TOTAL]]_vars

\* C5: two packets were counted, of which the last was a passed frame with a
\* truncated Ethernet header and none was dropped
C5_Witness ==
    /\ stats[STAT_TOTAL] = 2 /\ stats[STAT_BLOCKED] = 0
    /\ \E q \in Queues :
        /\ xdp[q].pc = "idle" /\ xdp[q].verdict = XDP_PASS
        /\ xdp[q].pkt.len < 14

C7_InsertKeepsCounter ==
    [][xdp' = xdp =>
        \A k \in (DOMAIN block_set) \cap (DOMAIN block_set') :
            block_set'[k] = block_set[k]]_vars

(***************************************************************************)
(* Properties of the registry.                                             *)
(***************************************************************************)
\* C8: on an initialised registry, adding a name twice gives the registry that
\* adding it once gives, and the second add returns 0
C8_AddTwice ==
    domains.alloc =>
        \A name \in StoreNames :
            LET once == domain_store_add(domains, name)
                twice == domain_store_add(once.reg, name)
            IN once.ret = 0 => (twice.reg = once.reg /\ twice.ret = 0)

Stored(name) == \E i \in 1..Len(domains.elems) : domains.elems[i].domain = name

\* C9: on an initialised registry, domain_store_add returns 0 exactly when the
\* name is present or there is room; when it returns 0 for a new name the
\* registry grows by that one entry; when the registry is full and the name
\* is new it returns non-zero and the registry is unchanged; the registry
\* never holds more than MAX_DOMAINS entries
C9_Capacity ==
    [][/\ Len(domains'.elems) <= MAX_DOMAINS
       /\ \A name \in StoreNames :
            (StoreAdd(name) /\ domains.alloc) =>
                /\ ret' = 0 <=> (Stored(name) \/ Len(domains.elems) < MAX_DOMAINS)
                /\ Stored(name) => domains' = domains
                /\ (~Stored(name) /\ Len(domains.elems) < MAX_DOMAINS)
                        => /\ Len(domains'.elems) = Len(domains.elems) + 1
                           /\ SubSeq(domains'.elems, 1, Len(domains.elems)) = domains.elems
                /\ (~Stored(name) /\ Len(domains.elems) >= MAX_DOMAINS)
                        => ret' # 0 /\ domains' = domains]_vars

\* C9: a full registry on which an add has returned the error
C9_Witness ==
    domains.alloc /\ Len(domains.elems) = MAX_DOMAINS /\ ret = -1

(***************************************************************************)
(* Properties of the shutdown.                                             *)
(***************************************************************************)
\* C10: once the handler has started, on whichever thread, the run reaches
\* the state in which running is false, the resolver thread has returned,
\* the classifier is detached, the registry is freed and the process has
\* exited with status 0
C10_ShutdownCompletes ==
    (handler.pc = "h_running")
        ~> (/\ proc = "exit0" /\ ~running /\ pc["resolver"] = "returned"
            /\ ~attached /\ ~domains.alloc)

(***************************************************************************)
(* Startup failures and the attach ladder of main.                         *)
(***************************************************************************)
\* C11: a run of main that ends with a failure status leaves no classifier
\* attached to the interface
C11_NoPartialAttachment == proc = "exit1" => ~attached

Untouched ==
    /\ ~attached
    /\ block_set = EmptyMap /\ allow_set = EmptyMap
    /\ stats = [i \in {STAT_TOTAL, STAT_BLOCKED} |-> 0]
    /\ domains = NULL

\* the place of a label in the setup sequence of main (0: not in it)
StepIndex(l) ==
    IF \E n \in 1..Len(SetupSteps) : SetupSteps[n] = l
    THEN CHOOSE n \in 1..Len(SetupSteps) : SetupSteps[n] = l
    ELSE 0

Range(sq) == {sq[j] : j \in 1..Len(sq)}

IsPrefix(a, b) == Len(a) <= Len(b) /\ SubSeq(b, 1, Len(a)) = a

\* what one turn of domain_store_resolve_all leaves for entry i when the host
\* resolver answered addr_list: every address is listed (in host order) in
\* the entry, and was written to block_set under its network-order key with
\* value 0; an address missing from block_set afterwards was pushed out of
\* the full map by a later address of the same answer
ResolvePost(i, addr_list) ==
    LET e == domains'.elems[i]
        n == Len(addr_list)
    IN /\ \A j \in 1..n :
            /\ InSeq(ntohl(addr_list[j]), e.resolved_ips)
            /\ \/ /\ Lookup(block_set', htonl(ntohl(addr_list[j])))
                  /\ block_set'[htonl(ntohl(addr_list[j]))] = 0
               \/ /\ j < n
                  /\ Cardinality(Keys(block_set')) = MaxEntries
                  /\ addr_list[j] \notin Range(SubSeq(addr_list, j + 1, n))
       /\ Cardinality(Keys(block_set) \cup Range(addr_list)) <= MaxEntries
            => Keys(block_set') = Keys(block_set) \cup Range(addr_list)
       /\ Keys(block_set') \subseteq NetIPs

Registered(reg, name) ==
    \E e \in 1..Len(reg.elems) : StrEq(reg.elems[e].domain, Strncpy(name))

\* C15: populate_domain_store registers every domain of the list without
\* asking the host resolver, and startup goes on whatever would resolve; in
\* a resolver pass a failed resolution leaves the registry and block_set as
\* they were and moves on to the next domain of the same pass; no step of
\* the pass removes or renames an entry, and the next pass starts again at
\* the first entry
C15_DnsFailureIsolated ==
    [][ /\ (PopulateTurn(ResolverDomains) /\ mloc.i < Len(ResolverDomains) /\ domains.alloc)
              => /\ Registered(domains', ResolverDomains[mloc.i + 1])
                 /\ proc' = "run" /\ block_set' = block_set
        /\ (pc["main"] = "m_populate" /\ pc'["main"] # "m_populate" /\ domains.alloc)
              => /\ proc' = "run" /\ pc'["main"] = "m_zero"
                 /\ \A n \in 1..Len(ResolverDomains) :
                        Registered(domains', ResolverDomains[n])
                 /\ \A e \in 1..Len(domains'.elems) :
                        domains'.elems[e].resolved_ips = <<>>
        /\ RResolve(<<>>)
              => /\ domains' = domains /\ block_set' = block_set
                 /\ proc' = "run" /\ pc' = pc /\ ri' = ri + 1
                 /\ ri + 1 < domain_count
                        => /\ Active("resolver")' /\ pc'["resolver"] = "r_resolve"
                           /\ ri' < domain_count'
        /\ (domains.alloc /\ domains'.alloc)
              => \A e \in 1..Len(domains.elems) :
                    /\ e <= Len(domains'.elems)
                    /\ domains'.elems[e].domain = domains.elems[e].domain
        /\ (pc["resolver"] = "r_count" /\ pc'["resolver"] = "r_resolve") => ri' = 0
      ]_vars

\* a pass has ended in which the first domain never resolved and the second
\* one did
C15_Witness ==
    /\ pc["resolver"] = "udc_lock"
    /\ domain_count = Len(ResolverDomains)
    /\ domains.elems[1].resolved_ips = <<>>
    /\ domains.elems[2].resolved_ips # <<>>

(***************************************************************************)
(* Properties of the whitelist resolver and of the list files.             *)
(***************************************************************************)
\* C16: when an iteration of the resolver thread has ended, for every pattern
\* W of the whitelist file and every registered blacklist entry B that W
\* matches, every address the resolver returned for B is a key of allow_set
\* with value 1
C16_AllowSetPass ==
    pc["resolver"] = "r_sleep"
        => \A file \in WhitelistFiles :
            \A W \in Range(load_whitelist_patterns(file).elems) :
                \A e \in 1..domain_count :
                    Fnmatch(W, domains.elems[e].domain)
                        => \A ip \in Range(domains.elems[e].resolved_ips) :
                                /\ Lookup(allow_set, htonl(ip))
                                /\ allow_set[htonl(ip)] = 1

\* C17: when no whitelist file is found, whitelist_resolver_init returns
\* whatever lies behind the two paths of the search list: the process goes
\* on, the patterns and allow_set are as they were, and the whitelist mutex
\* is released
C17_MissingWhitelist ==
    [][ \A past_end \in {"NULL", "other"} :
            WhitelistResolverInit(NoFile, past_end, NoFile, [n \in Names |-> <<>>])
                => /\ proc' = "run"
                   /\ whitelist_patterns' = whitelist_patterns
                   /\ allow_set' = allow_set
                   /\ whitelist_mutex' = "none"
      ]_vars

\* the entry of a line by the grammar of the list files: the first run of
\* non-blank characters of the part of the line before any `#`; <<>> when
\* that part is empty or blank
GrammarEntry(line) ==
    LET token == Strtok(TakeToken(line, {"#"}), {" ", "\t", "\n"})
    IN IF token = <<>> THEN <<>> ELSE <<token>>

RECURSIVE GrammarEntries(_, _)
GrammarEntries(lines, i) ==
    IF i > Len(lines) THEN <<>>
    ELSE GrammarEntry(lines[i]) \o GrammarEntries(lines, i + 1)

\* C18: the patterns loaded from a whitelist file are, line by line, the
\* first blank-delimited token of the part of the line before any `#`; an
\* empty line, a blank line and a comment line give no pattern
C18_LineGrammar ==
    [][ \A file \in WhitelistFiles, blacklist_file \in BlacklistFiles, dns \in Dns :
            WhitelistResolverInit(file, "NULL", blacklist_file, dns)
                => whitelist_patterns'.elems = GrammarEntries(file.lines, 1)
      ]_vars

(***************************************************************************)
(* Properties of the registry under the two threads.                       *)
(***************************************************************************)
RECURSIVE ParseDecimal(_)
\* the number a run of decimal digits denotes
ParseDecimal(digits) ==
    IF digits = <<>> THEN 0
    ELSE LET d == CHOOSE k \in 0..9 : Decimal(k) = <<digits[Len(digits)]>>
         IN 10 * ParseDecimal(SubSeq(digits, 1, Len(digits) - 1)) + d

\* the entries of the registry with drops, in registry order
WithDrops == SelectSeq(domains.elems, LAMBDA e : e.total_drops > 0)

\* line is `<name>:<drops>` and a newline for entry e
LineOf(line, e) ==
    LET n == Len(e.domain)
    IN /\ Len(line) >= n + 3
       /\ SubSeq(line, 1, n) = e.domain
       /\ line[n + 1] = ":"
       /\ line[Len(line)] = "\n"
       /\ ParseDecimal(SubSeq(line, n + 2, Len(line) - 1)) = e.total_drops

\* C19: a write of ebaf-domain-stats.dat replaces the whole file by one line
\* `<name>:<drops>` for each registry entry whose drop count is above 0, in
\* registry order and with the entry's current count, and by nothing else;
\* when the file cannot be opened it stays as it was; no other step writes it
C19_DomainStatsExport ==
    [][ /\ \A t \in Threads :
              /\ WsfBody(t, TRUE)
                    => /\ domain_stats_file'.exists
                       /\ Len(domain_stats_file'.lines) = Len(WithDrops)
                       /\ \A i \in 1..Len(WithDrops) :
                              LineOf(domain_stats_file'.lines[i], WithDrops[i])
              /\ WsfBody(t, FALSE) => domain_stats_file' = domain_stats_file
        /\ domain_stats_file' # domain_stats_file
              => \E t \in Threads : pc[t] = "wsf_body" /\ domain_mutex = t
      ]_vars

\* the file holds a line for each of the two domains, both with drops
C19_Witness ==
    /\ domain_stats_file.exists
    /\ Len(domain_stats_file.lines) = 2
    /\ domain_count = 2
    /\ \A i \in 1..2 : LineOf(domain_stats_file.lines[i], domains.elems[i])

\* C20: while a thread holds the registry mutex, the registry (its entries
\* and their IP lists) is changed only by that thread, in the step that ends
\* with its unlock: no other thread adds to an IP list or writes an entry
\* while the holder is traversing it
C20_RegistryMutualExclusion ==
    [][ (domains' # domains /\ domain_mutex # "none") => domain_mutex' = "none" ]_vars

(***************************************************************************)
(* Order of startup and shutdown.                                          *)
(***************************************************************************)
\* C21: in the shutdown started by a signal the classifier is detached from
\* the interface before the registry is freed, and the process exits with
\* status 0 only after both
C21_ShutdownOrder ==
    [][ /\ (domains.alloc /\ ~domains'.alloc) => ~attached
        /\ (proc = "run" /\ proc' = "exit0") => (~attached /\ ~domains.alloc)
      ]_vars

\* the stages of main up to its loop, in the order of the code
StartupOrder ==
    <<"m_args">> \o SetupSteps
        \o <<"m_populate", "m_zero", "m_seed", "m_attach", "m_create", "m_signal", "m_loop">>

\* the place of a label of main in StartupOrder (0: a label of the loop body
\* or of the end of main)
StartRank(l) ==
    IF \E n \in 1..Len(StartupOrder) : StartupOrder[n] = l
    THEN CHOOSE n \in 1..Len(StartupOrder) : StartupOrder[n] = l
    ELSE 0

HasWildcard(pattern) == \E i \in 1..Len(pattern) : pattern[i] \in {"*", "?", "["}

RECURSIVE ExplicitPass(_, _, _, _)
\* the explicit-whitelist pass from pattern i on: the patterns without a
\* wildcard, and only they, are resolved as names and their addresses put
\* into the map with value 1
ExplicitPass(m, patterns, dns, i) ==
    IF i > Len(patterns) THEN m
    ELSE ExplicitPass(IF HasWildcard(patterns[i]) THEN m
                      ELSE WhitelistIPs(m, dns[patterns[i]], 1),
                      patterns, dns, i + 1)

\* C24: an allow-set update that finds the blacklist file leaves allow_set as
\* the pattern pass followed by the explicit pass make it, where the explicit
\* pass resolves exactly the patterns without `*`, `?` or `[`
C24_ExplicitWhitelistPass ==
    [][ \A blacklist_file \in BlacklistFiles, dns \in GlobDns :
            (WhitelistResolverUpdate(blacklist_file, dns)
                /\ blacklist_file.exists /\ Len(whitelist_patterns.elems) > 0)
                => allow_set' =
                     ExplicitPass(
                        WhitelistStep1(allow_set, whitelist_patterns.elems,
                                       ParseLines(blacklist_file.lines, 1), dns, 1),
                        whitelist_patterns.elems, dns, 1)
      ]_vars

(***************************************************************************)
(* Properties of the registry operations.                                  *)
(***************************************************************************)
RECURSIVE SumOver(_, _)
\* the sum of f over the finite set S
SumOver(S, f) ==
    IF S = {} THEN 0
    ELSE LET x == CHOOSE y \in S : TRUE
         IN f[x] + SumOver(S \ {x}, f)

\* the counter of block_set for a listed address (host order): 0 when the
\* address is not a key
CounterOf(ip) == IF htonl(ip) \in Keys(block_set) THEN block_set[htonl(ip)] ELSE 0

\* C25: after domain_store_update_drop_counts every entry's count is the sum
\* of the block_set counters of its listed addresses (0 for an address that
\* is no longer a key) and nothing else of the registry has changed;
\* domain_store_get_drops returns the count of the entry of that name, or 0
\* when the name is not registered, and changes nothing
C25_DropCountRollup ==
    [][ /\ StoreUpdateDrops
              => /\ Len(domains'.elems) = Len(domains.elems)
                 /\ \A e \in 1..Len(domains.elems) :
                      LET ips == Range(domains.elems[e].resolved_ips)
                      IN /\ domains'.elems[e].total_drops =
                              SumOver(ips, [ip \in ips |-> CounterOf(ip)])
                         /\ domains'.elems[e] =
                              [domains.elems[e] EXCEPT
                                  !.total_drops = domains'.elems[e].total_drops]
                 /\ block_set' = block_set
        /\ \A name \in DropsNames :
              StoreGetDrops(name)
                  => /\ domains' = domains
                     /\ \A e \in 1..Len(domains.elems) :
                            domains.elems[e].domain = name
                                => ret' = domains.elems[e].total_drops
                     /\ ~Registered(domains, name) => ret' = 0
      ]_vars

\* an entry lists two addresses, one of them no longer a key of block_set;
\* its count is above 0 and is what the last query returned
C25_Witness ==
    \E e \in 1..domain_count :
        /\ Len(domains.elems[e].resolved_ips) = 2
        /\ \E ip \in Range(domains.elems[e].resolved_ips) : ~Lookup(block_set, htonl(ip))
        /\ domains.elems[e].total_drops > 0
        /\ ret = domains.elems[e].total_drops


\* C26: the two statistics files are opened for writing by the main thread
\* only: every write of /tmp/ebaf-stats.dat and every write of
\* /tmp/ebaf-domain-stats.dat is a step of main
C26_SingleWriter ==
    [][ /\ stats_file' # stats_file => pc["main"] = "m_fwrite"
        /\ \A t \in Threads : WsfBody(t, TRUE) => t = "main"
      ]_vars


(***************************************************************************)
(* Properties of the resolver thread.                                      *)
(***************************************************************************)
\* C27: the resolver sleeps in slices of one second, at most
\* RESOLUTION_INTERVAL_SEC of them, and begins a slice only when it has just
\* read running as true; with running false a sleeping resolver leaves the
\* sleep loop at its next step, without another slice, and then returns; a
\* pass begins only from the top of the loop with running read as true, and
\* a thread that has returned stays returned
C27_PromptCancellation ==
    [][ /\ (pc["resolver"] = "r_sleep" /\ pc'["resolver"] = "r_sleep" /\ ri' # ri)
              => (running /\ ri < RESOLUTION_INTERVAL_SEC /\ ri' = ri + 1)
        /\ (~running /\ pc["resolver"] = "r_sleep"
                /\ <<pc["resolver"], ri>>' # <<pc["resolver"], ri>>)
              => pc'["resolver"] = "r_top"
        /\ (~running /\ pc["resolver"] = "r_top" /\ pc'["resolver"] # "r_top")
              => pc'["resolver"] = "returned"
        /\ (pc'["resolver"] = "r_count" /\ pc["resolver"] # "r_count")
              => (pc["resolver"] = "r_top" /\ running)
        /\ pc["resolver"] = "returned" => pc'["resolver"] = "returned"
        /\ ~running => ~running'
      ]_vars

\* the flag is false while the resolver is in the middle of its sleep
C27_Witness ==
    /\ ~running
    /\ pc["resolver"] = "r_sleep"
    /\ ri >= 1 /\ ri < RESOLUTION_INTERVAL_SEC


\* C28: domain_store_init on a registry that exists changes nothing (the
\* entries, their order, their addresses and their counts stay); a registry
\* comes into existence only from the state without one (at the start or
\* after domain_store_cleanup), and it is then empty, with count 0
C28_InitIdempotent ==
    [][ /\ \A ok \in BOOLEAN :
              StoreInit(ok)
                  => /\ domains.alloc => domains' = domains
                     /\ ~domains.alloc => domains' = (IF ok THEN Array(<<>>) ELSE NULL)
        /\ (domains'.alloc /\ ~domains.alloc)
              => (domains' = Array(<<>>) /\ domain_count' = 0)
      ]_vars

\* a registry of two entries, one of them with a resolved address, on which
\* domain_store_init can be called again
C28_Witness ==
    /\ domains.alloc
    /\ domain_count >= 2
    /\ \E e \in 1..domain_count : Len(domains.elems[e].resolved_ips) >= 1


\* C29: no two entries of the registry hold the same stored name
C29_NameUniqueness ==
    \A i, j \in 1..domain_count :
        i # j => domains.elems[i].domain # domains.elems[j].domain


\* the capacities an IP list can have: INITIAL_IP_CAPACITY doubled some times
Capacities == {INITIAL_IP_CAPACITY * (2 ^ k) : k \in 0..ManyIPs}

\* the addresses (host order) of an answer of gethostbyname
AnswerIPs(addr_list) == {ntohl(addr_list[i]) : i \in 1..Len(addr_list)}

C31_AllowBeforeBlock ==
    [][ (pc["resolver"] = "r_resolve" /\ ri' = ri + 1 /\ ri < domain_count)
            => \A k \in Keys(block_set') \ Keys(block_set) :
                  (\E file \in WhitelistFiles :
                      \E W \in Range(load_whitelist_patterns(file).elems) :
                          Fnmatch(W, domains.elems[ri + 1].domain))
                      => Lookup(allow_set, k)
      ]_vars


(***************************************************************************)
(* Properties of the counters under parallel invocations.                  *)
(***************************************************************************)
\* C32: the blocked counter never exceeds the total counter, whatever the
\* interleaving of the invocations on the receive queues and of user space
C32_BlockedAtMostTotal == stats[STAT_BLOCKED] <= stats[STAT_TOTAL]

\* two invocations in parallel have both counted their packet as blocked
C32_Witness ==
    \E q1, q2 \in ParQueues :
        /\ q1 # q2
        /\ xdp[q1].pc \in {"cnt_daddr", "cnt_saddr"}
        /\ xdp[q2].pc \in {"cnt_daddr", "cnt_saddr"}
        /\ stats[STAT_BLOCKED] = 2
        /\ stats[STAT_TOTAL] = 2

\* whether no address is listed by two entries of the registry
DisjointLists ==
    \A e1, e2 \in 1..domain_count :
        e1 # e2 => Range(domains.elems[e1].resolved_ips)
                      \cap Range(domains.elems[e2].resolved_ips) = {}

\* C33: the sum of the counters of the keys of block_set is at most the
\* blocked counter; and so is the sum of the drop counts of the registry
\* entries when no address is listed by two of them
C33_PerIpSumAtMostBlocked ==
    /\ SumOver(Keys(block_set), block_set) <= stats[STAT_BLOCKED]
    /\ DisjointLists
          => SumOver(1..domain_count, [e \in 1..domain_count |-> domains.elems[e].total_drops])
                <= stats[STAT_BLOCKED]

\* two packets were dropped; a key that had counted a drop was evicted or
\* overwritten since, and an entry of the registry has a count from a rollup
C33_Witness ==
    /\ stats[STAT_BLOCKED] = 2
    /\ SumOver(Keys(block_set), block_set) = 1
    /\ \A q \in ParQueues : xdp[q].pc = "idle"
    /\ DisjointLists
    /\ \E e \in 1..domain_count : domains.elems[e].total_drops >= 1


(***************************************************************************)
(* Properties of the shutdown path.                                        *)
(***************************************************************************)
\* C34: the cleanup handler never waits for domain_mutex while the thread it
\* runs on holds it, and never joins the thread it runs on
C34_NoSelfDeadlock ==
    /\ ~(handler.pc = "h_cl_lock" /\ domain_mutex = handler.on)
    /\ ~(handler.pc = "h_join" /\ handler.on = "resolver")


\* the positions of a thread inside domain_store_resolve_all,
\* domain_store_update_drop_counts and domain_store_write_stats_file
InsideRegistry == {"r_resolve", "udc_lock", "udc_body", "wsf_lock", "wsf_body"}

\* C35: when domain_store_cleanup has freed the registry, and from then on,
\* the resolver thread is not inside domain_store_resolve_all,
\* domain_store_update_drop_counts or domain_store_write_stats_file
C35_NoUseAfterFree ==
    handler.pc \in {"h_detach", "h_exit", "exited"}
        => pc["resolver"] \notin InsideRegistry


\* C36: a process that a termination signal has ended (by the default
\* action, or through the handler's exit) has no classifier attached
C36_NoAttachedSurvivor == proc \in {"killed", "exit0"} => ~attached


(***************************************************************************)
(* Properties of the drop counts over time.                                *)
(***************************************************************************)
\* C37: while no key has been evicted from block_set (the map has never been
\* full), no step lowers the drop count of a registry entry: a rollup gives
\* every entry at least the count of the rollup before
C37_DropsNeverGoBack ==
    [][ Cardinality(Keys(block_set')) < MaxEntries
            => \A e \in 1..domain_count :
                  domains'.elems[e].total_drops >= domains.elems[e].total_drops
      ]_vars


(***************************************************************************)
(* Properties of the locking.                                              *)
(***************************************************************************)
\* C38: no operation unlocks a mutex its thread does not hold (no mutex is
\* ever broken); a thread that is not inside an operation holds neither
\* mutex, whatever return path the operation took; and between the lock and
\* the return of an operation its thread is the owner of the mutex
C38_BalancedLocking ==
    /\ domain_mutex \in Threads \cup {"none"}
    /\ whitelist_mutex \in Threads \cup {"none"}
    /\ \A t \in Threads :
          /\ pc[t] \in {AfterExport(t), "udc_lock", "wsf_lock", "wl_update_call"}
                => (domain_mutex # t /\ whitelist_mutex # t)
          /\ pc[t] \in {"add_body", "get_drops_body", "udc_body", "wsf_body"}
                => (domain_mutex = t /\ whitelist_mutex # t)
          /\ pc[t] \in {"wl_load", "wl_update"}
                => (whitelist_mutex = t /\ domain_mutex # t)

\* domain_store_add has returned -1 on a full registry, the patterns are
\* loaded, and both threads are outside the operations with the mutexes free
C38_Witness ==
    /\ domains.alloc /\ domain_count = MAX_DOMAINS /\ ret = -1
    /\ whitelist_patterns.alloc
    /\ \A t \in Threads : pc[t] = AfterExport(t)
    /\ domain_mutex = "none" /\ whitelist_mutex = "none"

====
